---------------------------- MODULE Spec2Model ----------------------------
(***************************************************************************)
(* A model of tile-world's scene runtime: the SceneBuilder's layered tile  *)
(* grids (static layers of the config plus runtime layers), tile           *)
(* placement and removal, the metadata/props queries, and the hover/click  *)
(* event contract.                                                         *)
(*                                                                         *)
(* Strings the code inspects character by character (tile codes, tileset   *)
(* shorts) are sequences of one-character strings, so that trim() and the  *)
(* regular expressions are modelled by what they do.  Names and ids that   *)
(* are only compared for equality are plain strings.                       *)
(***************************************************************************)
EXTENDS Integers, Sequences, FiniteSets, TLC

VARIABLES
    config,           \* SceneBuilder.config (read-only TWMConfig)
    runtimeLayers,    \* SceneBuilder.runtimeLayers
    hiddenLayers,     \* SceneBuilder.hiddenLayers
    eventSubscriber,  \* the module-level emptyEventSubscriber object
    lastHoveredTile,  \* SceneBuilder.lastHoveredTile
    dom,              \* children of .tw-scene-wrapper: one element per rendered layer
    lastOp,           \* the last call or DOM event, its arguments and the error it raised
    retStack,         \* records built by the last getTileMetadataStack call
    retProps,         \* map returned by the last getProps / getPropsFromHighestTile call
    emitted,          \* callback invocations made by the last operation, in order
    afterAdd,         \* the last operation came right after a successful addTile on the same layer and cell
    prevHovered,      \* lastHoveredTile as it was when the last operation started
    prevHidden,       \* hiddenLayers as it was when the last operation started
    render,           \* the tile images and the Promise.all of the last buildScene
    parser,           \* the ParserState of TWMConfigParser.parseConfig and how far the parse is
    manager,          \* TileWorldManager: its config and its sceneBuilder reference
    instance,         \* which SceneBuilder the scene variables describe: the n-th constructed
    subscribedOn,     \* for each entry of eventSubscriber, the instance it was subscribed on
    seen              \* for each callback in both hover lists, the last hover event it was called with

vars == <<config, runtimeLayers, hiddenLayers, eventSubscriber, lastHoveredTile,
          dom, lastOp, retStack, retProps, emitted, afterAdd, prevHovered,
          prevHidden, render, parser, manager, instance, subscribedOn, seen>>

-----------------------------------------------------------------------------
(* Characters and the string functions the code applies to tile codes.     *)

UpperCase == {"A","B","C","D","E","F","G","H","I","J","K","L","M",
              "N","O","P","Q","R","S","T","U","V","W","X","Y","Z"}

LowerCase == {"a","b","c","d","e","f","g","h","i","j","k","l","m",
              "n","o","p","q","r","s","t","u","v","w","x","y","z"}

Digits == {"0","1","2","3","4","5","6","7","8","9"}

WhiteSpace == {" ", "\t", "\n"}

Letters == UpperCase \cup LowerCase

RECURSIVE TrimStart(_)
TrimStart(s) ==
    IF s # <<>> /\ Head(s) \in WhiteSpace THEN TrimStart(Tail(s)) ELSE s

RECURSIVE TrimEnd(_)
TrimEnd(s) ==
    IF s # <<>> /\ s[Len(s)] \in WhiteSpace
    THEN TrimEnd(SubSeq(s, 1, Len(s) - 1))
    ELSE s

\* String.prototype.trim
Trim(s) == TrimEnd(TrimStart(s))

\* /^[A-Za-z]+\d+$/ : one or more letters, then one or more digits, nothing else
MatchLettersDigits(s) ==
    \E i \in 1..(Len(s) - 1) :
        /\ \A j \in 1..i : s[j] \in Letters
        /\ \A j \in (i + 1)..Len(s) : s[j] \in Digits

\* capture group 1 of /^([A-Za-z]+)(\d+)$/ on a string that matches it
LettersGroup(s) ==
    LET i == CHOOSE k \in 1..(Len(s) - 1) :
                 /\ \A j \in 1..k : s[j] \in Letters
                 /\ \A j \in (k + 1)..Len(s) : s[j] \in Digits
    IN SubSeq(s, 1, i)

\* the null of a failed String.prototype.match; no non-empty string equals it
Null == <<>>

\* tileCode.match(/^[A-Z]+/)?.[0] ?? null : the longest upper-case prefix
UpperCaseMatch(s) ==
    LET n == CHOOSE k \in 0..Len(s) :
                 /\ \A j \in 1..k : s[j] \in UpperCase
                 /\ (k < Len(s) => s[k + 1] \notin UpperCase)
    IN IF n = 0 THEN Null ELSE SubSeq(s, 1, n)

-----------------------------------------------------------------------------
(* Error codes (TWErrorCode) and the outcome of a call.                    *)

OK == "OK"
INVALID_TILE_SYNTAX == "INVALID_TILE_SYNTAX"
INVALID_TILE_CODE == "INVALID_TILE_CODE"
TILESET_NOT_FOUND == "TILESET_NOT_FOUND"
LAYER_ALREADY_EXISTS == "LAYER_ALREADY_EXISTS"
LAYER_NOT_FOUND == "LAYER_NOT_FOUND"
INVALID_TILE_POSITION == "INVALID_TILE_POSITION"
\* reading .id of the undefined result of tilesets.find
TYPE_ERROR == "TypeError"

\* the empty marker
EmptyTile == <<"0">>

\* validateTileFormat testing the code as given, without trim()
ValidateTileFormatNoTrim(tile) ==
    IF tile = EmptyTile THEN OK
    ELSE IF ~MatchLettersDigits(tile) THEN INVALID_TILE_SYNTAX
    ELSE OK

\* TileValidator.validateTileFormat: OK, or the code it throws
ValidateTileFormat(tile) ==
    LET trimmed == Trim(tile)
    IN IF trimmed = EmptyTile THEN OK
       ELSE IF ~MatchLettersDigits(trimmed) THEN INVALID_TILE_SYNTAX
       ELSE OK

-----------------------------------------------------------------------------
(* Small helpers for arrays and objects.                                   *)

\* Array.prototype.find: hits[i] tells whether element i passes the test; the
\* index of the first that does, 0 (undefined) if none
FindIndex(hits) ==
    IF \E i \in DOMAIN hits : hits[i]
    THEN CHOOSE i \in DOMAIN hits : hits[i] /\ \A j \in 1..(i - 1) : ~hits[j]
    ELSE 0

\* find(l => l.name === name) over layers or layer elements
FindByName(s, name) == FindIndex([i \in 1..Len(s) |-> s[i].name = name])

\* tilesets.find(ts => ts.short === short)
FindTileset(tilesets, short) ==
    FindIndex([i \in 1..Len(tilesets) |-> tilesets[i].short = short])

\* {}
EmptyMap == [k \in {} |-> ""]

\* obj[key] ?? {}
Lookup(obj, key) == IF key \in DOMAIN obj THEN obj[key] ELSE EmptyMap

\* { ...a, ...b } and Object.assign(a, b): keys of b override keys of a
Assign(a, b) ==
    [k \in (DOMAIN a) \cup (DOMAIN b) |-> IF k \in DOMAIN b THEN b[k] ELSE a[k]]

\* SceneBuilderUtils.createEmpty2DArray
createEmpty2DArray(width, height) ==
    [r \in 1..height |-> [c \in 1..width |-> EmptyTile]]

\* layer.tiles?.[y]?.[x] ?? "0"   (x, y are the code's 0-based indices)
TileAt(layer, x, y) ==
    IF /\ y + 1 \in DOMAIN layer.tiles
       /\ x + 1 \in DOMAIN layer.tiles[y + 1]
    THEN layer.tiles[y + 1][x + 1]
    ELSE EmptyTile


-----------------------------------------------------------------------------
(* Configurations the scene is constructed with, and the call arguments.   *)

G1 == <<"G", "1">>
Gr1 == <<"G", "r", "1">>
g1 == <<"g", "1">>
paddedG1 == <<" ", "G", "1">>
lettersOnly == <<"G">>

\* 2 x 1 world; tileset shorts "G" and "Gr"; static layers ground and deco
ConfigA ==
    [main |-> [tileSize |-> 16, width |-> 2, height |-> 1],
     tilesets |-> << [id |-> "grass", tileset |-> "grass.png", short |-> <<"G">>],
                     [id |-> "gravel", tileset |-> "gravel.png", short |-> <<"G", "r">>] >>,
     layers |-> << [name |-> "ground", tiles |-> << <<G1, Gr1>> >>],
                   [name |-> "deco", tiles |-> << <<Gr1, EmptyTile>> >>] >>,
     props |-> [tilesets |-> [grass |-> [a |-> "1"], gravel |-> [a |-> "9", v |-> "8"]],
                layers |-> [ground |-> [a |-> "2", b |-> "3"],
                            deco |-> [d |-> "6"],
                            top |-> [a |-> "7"]],
                tiles |-> (G1 :> [b |-> "4"])]]

\* 1 x 1 world; a tileset whose short is the lower-case "g"; static layer ground
ConfigB ==
    [main |-> [tileSize |-> 16, width |-> 1, height |-> 1],
     tilesets |-> << [id |-> "grass", tileset |-> "grass.png", short |-> <<"G">>],
                     [id |-> "sand", tileset |-> "sand.png", short |-> <<"g">>] >>,
     layers |-> << [name |-> "ground", tiles |-> << <<G1>> >>] >>,
     props |-> [tilesets |-> [grass |-> [a |-> "1"], sand |-> [a |-> "5"]],
                layers |-> [ground |-> [a |-> "2", b |-> "3"],
                            top |-> [c |-> "0"]],
                tiles |-> (G1 :> [b |-> "4"] @@ g1 :> [a |-> "4"])]]

Configs == {ConfigA, ConfigB}

\* layerName arguments: ground is static in both configurations, deco is static
\* in ConfigA only, top is static in neither
LayerNames == {"ground", "deco", "top"}

\* tileCode arguments: well-formed codes, one with a leading blank and one that
\* is letters only
TileCodes == {G1, g1, paddedG1, lettersOnly}

Width == config.main.width
Height == config.main.height

\* the cells of the world
Cells == {p \in (0..(Width - 1)) \X (0..(Height - 1)) : TRUE}

\* (x, y) arguments: every cell, and one position beyond each of the four edges
Positions == Cells \cup {<<-1, 0>>, <<Width, 0>>, <<0, -1>>, <<0, Height>>}

-----------------------------------------------------------------------------
(* Rendering, as far as it can raise an error or change the layer list.    *)

\* SceneBuilderUtils.createTileElement: OK, or the code it throws for tileCode
createTileElement(tileCode) ==
    IF tileCode = EmptyTile THEN OK
    ELSE IF ValidateTileFormat(tileCode) # OK THEN INVALID_TILE_SYNTAX
    ELSE IF ~MatchLettersDigits(tileCode) THEN INVALID_TILE_CODE
    ELSE IF FindTileset(config.tilesets, LettersGroup(tileCode)) = 0
    THEN TILESET_NOT_FOUND
    ELSE OK

RECURSIVE Flatten(_)
\* the cells of a grid in the order of the nested loops over y and x
Flatten(rows) == IF rows = <<>> THEN <<>> ELSE Head(rows) \o Flatten(Tail(rows))

\* SceneBuilderUtils.createGridElement: OK, or the code thrown by the first tile
\* element that cannot be created
createGridElement(layer) ==
    LET cells == Flatten(layer.tiles)
        i == FindIndex([k \in 1..Len(cells) |-> createTileElement(cells[k]) # OK])
    IN IF i = 0 THEN OK ELSE createTileElement(cells[i])

\* [...this.config.layers, ...this.runtimeLayers]
AllLayers == config.layers \o runtimeLayers

\* the loop of buildScene over all layers: the first grid that throws decides
BuildSceneError(layers) ==
    LET i == FindIndex([k \in 1..Len(layers) |-> createGridElement(layers[k]) # OK])
    IN IF i = 0 THEN OK ELSE createGridElement(layers[i])

\* the wrapper's children after a buildScene that did not throw
BuiltDom(layers) ==
    [i \in 1..Len(layers) |->
        [name |-> layers[i].name, display |-> "grid",
         children |-> Len(Flatten(layers[i].tiles))]]

\* SceneBuilder.getTileCodeFromLayer, reading the runtime layer list layers
getTileCodeFromLayer(layers, layerName, x, y) ==
    LET r == FindByName(layers, layerName)
        s == FindByName(config.layers, layerName)
    IN IF r # 0 THEN TileAt(layers[r], x, y)
       ELSE IF s # 0 THEN TileAt(config.layers[s], x, y)
       ELSE EmptyTile

\* SceneBuilder.updateTileInDOM with the runtime layer list layers: OK, or the
\* code thrown while the cell's tile element is created anew
updateTileInDOM(layers, layerName, x, y) ==
    LET i == FindByName(dom, layerName)
        tileIndex == y * Width + x
    IN IF i = 0 THEN OK
       ELSE IF ~(tileIndex >= 0 /\ tileIndex < dom[i].children) THEN OK
       ELSE createTileElement(getTileCodeFromLayer(layers, layerName, x, y))

-----------------------------------------------------------------------------
(* The images of a render pass and its Promise.all.                        *)

FAILED_TO_LOAD_IMAGE == "FAILED_TO_LOAD_IMAGE"

RECURSIVE AllCells(_)
\* the cells of all layers in the order buildScene visits them
AllCells(layers) ==
    IF layers = <<>> THEN <<>>
    ELSE Flatten(Head(layers).tiles) \o AllCells(Tail(layers))

\* the tile codes createTileElement makes an image and a promise for: every
\* cell that is not the empty marker
ImageTiles(layers) ==
    LET HasImage(tileCode) == tileCode # EmptyTile
    IN SelectSeq(AllCells(layers), HasImage)

\* new Image() with img.src set, and the promise that waits for it
NewImage(tileCode) ==
    [tileset |-> config.tilesets[FindTileset(config.tilesets,
                                             LettersGroup(tileCode))].id,
     img |-> "loading", promise |-> "pending"]

\* the promises array of a buildScene over layers, the Promise.all over it and
\* what TWErrorHandler.log has printed for the pass
NewPass(layers) ==
    [images |-> [i \in 1..Len(ImageTiles(layers)) |-> NewImage(ImageTiles(layers)[i])],
     all |-> "pending",
     log |-> <<>>]

-----------------------------------------------------------------------------
(* TWMConfigParser: strings are sequences of characters, so the ids, names *)
(* and keys of a parsed config are sequences too.                          *)

MISSING_KEY_VALUE == "MISSING_KEY_VALUE"
MISSING_SECTION == "MISSING_SECTION"
UNKNOWN_SECTION == "UNKNOWN_SECTION"
DUPLICATE_TILESET == "DUPLICATE_TILESET"
DUPLICATE_LAYER == "DUPLICATE_LAYER"
UNKNOWN_PROP_TYPE == "UNKNOWN_PROP_TYPE"
UNKNOWN_PROP_FORMAT == "UNKNOWN_PROP_FORMAT"

\* the words the parser compares with
S_main == <<"m", "a", "i", "n">>
S_props == <<"p", "r", "o", "p", "s">>
S_tileset == <<"t", "i", "l", "e", "s", "e", "t">>
S_layer == <<"l", "a", "y", "e", "r">>
S_tile == <<"t", "i", "l", "e">>
S_short == <<"s", "h", "o", "r", "t">>
S_tiles == <<"t", "i", "l", "e", "s">>
S_tileSize == <<"t", "i", "l", "e", "S", "i", "z", "e">>
S_width == <<"w", "i", "d", "t", "h">>
S_height == <<"h", "e", "i", "g", "h", "t">>

\* String.prototype.startsWith
StartsWith(s, prefix) ==
    Len(s) >= Len(prefix) /\ SubSeq(s, 1, Len(prefix)) = prefix

RECURSIVE Split(_, _)
\* String.prototype.split on a one-character separator
Split(s, sep) ==
    IF \A i \in 1..Len(s) : s[i] # sep THEN <<s>>
    ELSE LET i == CHOOSE k \in 1..Len(s) :
                      s[k] = sep /\ \A j \in 1..(k - 1) : s[j] # sep
         IN <<SubSeq(s, 1, i - 1)>> \o Split(SubSeq(s, i + 1, Len(s)), sep)

\* line.slice(1, -1)
Slice1(line) == SubSeq(line, 2, Len(line) - 1)

DigitSeq == <<"0", "1", "2", "3", "4", "5", "6", "7", "8", "9">>

RECURSIVE DecimalValue(_)
\* the value of a string of decimal digits
DecimalValue(s) ==
    IF s = <<>> THEN 0
    ELSE 10 * DecimalValue(SubSeq(s, 1, Len(s) - 1))
             + (CHOOSE d \in 0..9 : DigitSeq[d + 1] = s[Len(s)])

\* Number(value) for the values the model feeds: 0 for the empty string, the
\* value of a string of digits, NaN for a string with another character
Number(value) ==
    IF \A i \in 1..Len(value) : value[i] \in Digits
    THEN [nan |-> FALSE, value |-> DecimalValue(value)]
    ELSE [nan |-> TRUE, value |-> 0]

\* the ParserState parseConfig starts with
InitialParserState ==
    [currentSection |-> "",
     currentLayer |-> EmptyMap,
     tempTileset |-> EmptyMap,
     config |-> [layers |-> <<>>, tilesets |-> <<>>,
                 props |-> [tilesets |-> EmptyMap, layers |-> EmptyMap,
                            tiles |-> EmptyMap]]]

\* a parse before its first line: pc is "lines" while the loop over the lines
\* runs, "done" once the config is returned and "failed" once an error is
\* thrown; text holds the raw lines handled so far
ParserStart ==
    [pc |-> "lines", state |-> InitialParserState, err |-> OK, text |-> <<>>]

-----------------------------------------------------------------------------
(* The state after new SceneBuilder(selector, config, settings).           *)

NoTile == [x |-> -1, y |-> -1]

\* callbacks a caller may subscribe
Callbacks == {"cb1", "cb2"}

\* a callback that has not been called yet
NoCall == [event |-> "none", cb |-> "", x |-> -1, y |-> -1]

\* what lastOp records: the operation, its arguments (defaults where it has
\* none; a subscription's callback goes in layerName) and OK or the error raised
Op(op, layerName, x, y, tileCode, err) ==
    [op |-> op, layerName |-> layerName, x |-> x, y |-> y,
     tileCode |-> tileCode, err |-> err]

Init ==
    /\ config \in Configs
    /\ BuildSceneError(config.layers) = OK
    /\ runtimeLayers = <<>>
    /\ hiddenLayers = <<>>
    /\ eventSubscriber = [onTileClicked |-> <<>>, onTileHover |-> <<>>,
                          onTileHoverEnd |-> <<>>]
    /\ lastHoveredTile = NoTile
    /\ dom = BuiltDom(config.layers)
    /\ lastOp = Op("new", "", 0, 0, <<>>, OK)
    /\ retStack = <<>>
    /\ retProps = EmptyMap
    /\ emitted = <<>>
    /\ afterAdd = FALSE
    /\ prevHovered = NoTile
    /\ prevHidden = <<>>
    /\ render = NewPass(config.layers)
    /\ parser = ParserStart
    /\ manager = [config |-> config, sceneBuilder |-> 1]
    /\ instance = 1
    /\ subscribedOn = [onTileClicked |-> <<>>, onTileHover |-> <<>>,
                       onTileHoverEnd |-> <<>>]
    /\ seen = [cb \in Callbacks |-> NoCall]

\* whether the operation now running on cell (x, y) of layerName comes right
\* after a successful addTile on that cell
FollowsAdd(layerName, x, y) ==
    /\ lastOp.op = "addTile" /\ lastOp.err = OK
    /\ lastOp.layerName = layerName /\ lastOp.x = x /\ lastOp.y = y

\* a call of the world model: no pointer event is involved
NoEvents ==
    /\ emitted' = <<>>
    /\ prevHovered' = lastHoveredTile
    /\ prevHidden' = hiddenLayers
    /\ UNCHANGED <<config, hiddenLayers, eventSubscriber, lastHoveredTile,
                   render, parser, manager, instance, subscribedOn, seen>>

\* an operation that returns nothing
NoResult ==
    /\ retStack' = <<>>
    /\ retProps' = EmptyMap

-----------------------------------------------------------------------------
(* Layer handling.                                                         *)

\* createRuntimeLayer's exists test without its look at the static layers
LayerExistsRuntimeOnly(layerName) ==
    \E i \in 1..Len(runtimeLayers) : runtimeLayers[i].name = layerName

\* the exists test of createRuntimeLayer
LayerExists(layerName) ==
    \/ \E i \in 1..Len(config.layers) : config.layers[i].name = layerName
    \/ \E i \in 1..Len(runtimeLayers) : runtimeLayers[i].name = layerName

\* SceneBuilder.addRuntimeLayerToDOM: pushes a layer of its own and appends
\* its grid element to the wrapper
addRuntimeLayerToDOM(layers, layerName) ==
    Append(layers, [name |-> layerName,
                    tiles |-> createEmpty2DArray(Width, Height)])

\* SceneBuilder.createRuntimeLayer
CreateRuntimeLayer(layerName) ==
    /\ IF LayerExists(layerName)
       THEN /\ lastOp' = Op("createRuntimeLayer", layerName, 0, 0, <<>>,
                            LAYER_ALREADY_EXISTS)
            /\ UNCHANGED <<runtimeLayers, dom>>
       ELSE /\ runtimeLayers' =
                   addRuntimeLayerToDOM(
                       Append(runtimeLayers,
                              [name |-> layerName,
                               tiles |-> createEmpty2DArray(Width, Height)]),
                       layerName)
            /\ dom' = Append(dom, [name |-> layerName, display |-> "grid",
                                    children |-> Width * Height])
            /\ lastOp' = Op("createRuntimeLayer", layerName, 0, 0, <<>>, OK)
    /\ afterAdd' = FALSE
    /\ NoEvents
    /\ NoResult

-----------------------------------------------------------------------------
(* Tile handling.                                                          *)

\* x < 0 || x >= width || y < 0 || y >= height
OutOfBounds(x, y) == x < 0 \/ x >= Width \/ y < 0 \/ y >= Height

\* this.runtimeLayers.find(l => l.name === layerName), as an index (0: undefined)
FindRuntimeLayer(layerName) == FindByName(runtimeLayers, layerName)

\* addTile's checks with the layer lookup moved before the syntax check
addTileChecksLayerFirst(layerName, x, y, tileCode) ==
    IF FindRuntimeLayer(layerName) = 0 THEN LAYER_NOT_FOUND
    ELSE IF ValidateTileFormat(tileCode) # OK THEN INVALID_TILE_SYNTAX
    ELSE IF OutOfBounds(x, y) THEN INVALID_TILE_POSITION
    ELSE OK

\* the checks of addTile before it writes, in the code's order
addTileChecks(layerName, x, y, tileCode) ==
    IF ValidateTileFormat(tileCode) # OK THEN INVALID_TILE_SYNTAX
    ELSE IF FindRuntimeLayer(layerName) = 0 THEN LAYER_NOT_FOUND
    ELSE IF OutOfBounds(x, y) THEN INVALID_TILE_POSITION
    ELSE OK

\* the checks of removeTile before it writes
removeTileChecks(layerName, x, y) ==
    IF FindRuntimeLayer(layerName) = 0 THEN LAYER_NOT_FOUND
    ELSE IF OutOfBounds(x, y) THEN INVALID_TILE_POSITION
    ELSE OK

\* an assignment that fills the whole row y of the layer at index i
SetTileWholeRow(layers, i, x, y, tileCode) ==
    [layers EXCEPT ![i].tiles[y + 1] = [c \in DOMAIN @ |-> tileCode]]

\* layer.tiles[y][x] = tileCode, on the layer at index i
SetTile(layers, i, x, y, tileCode) ==
    [layers EXCEPT ![i].tiles[y + 1][x + 1] = tileCode]

\* removeTile writing the empty string instead of the empty marker
removedValueBlank == <<>>

\* the value removeTile writes
removedValue == EmptyTile

\* SceneBuilder.addTile
AddTile(layerName, x, y, tileCode) ==
    /\ LET err == addTileChecks(layerName, x, y, tileCode)
       IN IF err # OK
          THEN /\ lastOp' = Op("addTile", layerName, x, y, tileCode, err)
               /\ UNCHANGED runtimeLayers
          ELSE LET layers == SetTile(runtimeLayers, FindRuntimeLayer(layerName),
                                     x, y, tileCode)
               IN /\ runtimeLayers' = layers
                  /\ lastOp' = Op("addTile", layerName, x, y, tileCode,
                                  updateTileInDOM(layers, layerName, x, y))
    /\ afterAdd' = FALSE
    /\ UNCHANGED dom
    /\ NoEvents
    /\ NoResult

\* SceneBuilder.removeTile
RemoveTile(layerName, x, y) ==
    /\ LET err == removeTileChecks(layerName, x, y)
       IN IF err # OK
          THEN /\ lastOp' = Op("removeTile", layerName, x, y, <<>>, err)
               /\ UNCHANGED runtimeLayers
          ELSE LET layers == SetTile(runtimeLayers, FindRuntimeLayer(layerName),
                                     x, y, removedValue)
               IN /\ runtimeLayers' = layers
                  /\ lastOp' = Op("removeTile", layerName, x, y, <<>>,
                                  updateTileInDOM(layers, layerName, x, y))
    /\ afterAdd' = FollowsAdd(layerName, x, y)
    /\ UNCHANGED dom
    /\ NoEvents
    /\ NoResult

-----------------------------------------------------------------------------
(* Metadata and props queries.                                             *)

\* the alpha prefix getTileMetadataStack derives from a tile code
tilesetShortOf(tileCode) == UpperCaseMatch(tileCode)

\* the spread with the layer's props last: { ...tilesetProps, ...tileProps, ...layerProps }
combinedPropsLayerLast(tilesetProps, layerProps, tileProps) ==
    Assign(Assign(tilesetProps, tileProps), layerProps)

\* { ...tilesetProps, ...layerProps, ...tileProps }
combinedProps(tilesetProps, layerProps, tileProps) ==
    Assign(Assign(tilesetProps, layerProps), tileProps)

RECURSIVE MetadataLoop(_, _, _, _)
\* the for loop of getTileMetadataStack over the layers still to visit; a
\* TypeError ends it with the records pushed so far
MetadataLoop(layers, x, y, result) ==
    IF layers = <<>> THEN [err |-> OK, stack |-> result]
    ELSE LET layer == Head(layers)
             tileCode == TileAt(layer, x, y)
         IN IF tileCode = <<>> \/ tileCode = EmptyTile
            THEN MetadataLoop(Tail(layers), x, y, result)
            ELSE LET tilesetShort == tilesetShortOf(tileCode)
                     t == FindTileset(config.tilesets, tilesetShort)
                 IN IF t = 0
                    THEN [err |-> TYPE_ERROR, stack |-> result]
                    ELSE LET tileProps == Lookup(config.props.tiles, tileCode)
                             layerProps == Lookup(config.props.layers, layer.name)
                             tilesetProps ==
                                 IF tilesetShort # Null
                                 THEN Lookup(config.props.tilesets,
                                             config.tilesets[t].id)
                                 ELSE EmptyMap
                         IN MetadataLoop(Tail(layers), x, y,
                                Append(result,
                                    [tile |-> tileCode,
                                     layerName |-> layer.name,
                                     tilesetShort |-> tilesetShort,
                                     tilesetId |-> config.tilesets[t].id,
                                     props |-> combinedProps(tilesetProps,
                                                   layerProps, tileProps)]))

\* SceneBuilder.getTileMetadataStack: err is OK and stack the returned array,
\* or err is the error thrown
getTileMetadataStack(x, y) ==
    IF OutOfBounds(x, y) THEN [err |-> OK, stack |-> <<>>]
    ELSE MetadataLoop(AllLayers, x, y, <<>>)

RECURSIVE AssignAll(_, _)
\* for (const tile of stack) Object.assign(mergedProps, tile.props)
AssignAll(mergedProps, stack) ==
    IF stack = <<>> THEN mergedProps
    ELSE AssignAll(Assign(mergedProps, Head(stack).props), Tail(stack))

RECURSIVE AssignMissing(_, _)
\* a fold in which a key once set is kept
AssignMissing(mergedProps, stack) ==
    IF stack = <<>> THEN mergedProps
    ELSE AssignMissing(Assign(Head(stack).props, mergedProps), Tail(stack))

\* getProps with lower layers overriding higher ones
getPropsLowestWins(stack) == AssignMissing(EmptyMap, stack)

\* SceneBuilder.getProps on a stack that was returned
getProps(stack) == AssignAll(EmptyMap, stack)

\* SceneBuilder.getPropsFromHighestTile on a stack that was returned
getPropsFromHighestTile(stack) ==
    IF Len(stack) = 0 THEN EmptyMap ELSE stack[Len(stack)].props

\* a call of getTileMetadataStack(x, y)
GetTileMetadataStack(x, y) ==
    /\ lastOp' = Op("getTileMetadataStack", "", x, y, <<>>,
                    getTileMetadataStack(x, y).err)
    /\ retStack' = getTileMetadataStack(x, y).stack
    /\ retProps' = EmptyMap
    /\ afterAdd' = FALSE
    /\ NoEvents
    /\ UNCHANGED <<runtimeLayers, dom>>

\* a call of getProps(x, y)
GetProps(x, y) ==
    LET r == getTileMetadataStack(x, y)
    IN /\ lastOp' = Op("getProps", "", x, y, <<>>, r.err)
       /\ retProps' = IF r.err = OK THEN getProps(r.stack) ELSE EmptyMap
       /\ retStack' = <<>>
       /\ afterAdd' = FALSE
       /\ NoEvents
       /\ UNCHANGED <<runtimeLayers, dom>>

\* a call of getPropsFromHighestTile(x, y)
GetPropsFromHighestTile(x, y) ==
    LET r == getTileMetadataStack(x, y)
    IN /\ lastOp' = Op("getPropsFromHighestTile", "", x, y, <<>>, r.err)
       /\ retProps' = IF r.err = OK THEN getPropsFromHighestTile(r.stack)
                      ELSE EmptyMap
       /\ retStack' = <<>>
       /\ afterAdd' = FALSE
       /\ NoEvents
       /\ UNCHANGED <<runtimeLayers, dom>>

-----------------------------------------------------------------------------
(* The world model: layers, tiles and queries.                             *)

Next ==
    \/ \E n \in LayerNames : CreateRuntimeLayer(n)
    \/ \E n \in LayerNames, p \in Positions, c \in TileCodes :
           AddTile(n, p[1], p[2], c)
    \/ \E n \in LayerNames, p \in Positions : RemoveTile(n, p[1], p[2])
    \/ \E p \in Positions : GetTileMetadataStack(p[1], p[2])
    \/ \E p \in Positions : GetProps(p[1], p[2])
    \/ \E p \in Positions : GetPropsFromHighestTile(p[1], p[2])

Spec == Init /\ [][Next]_vars

-----------------------------------------------------------------------------
(* Event subscription and pointer events.                                  *)

\* subscriptions made in one run, over the three lists together
MaxSubscriptions == 3

Subscriptions ==
    Len(eventSubscriber.onTileClicked) + Len(eventSubscriber.onTileHover)
        + Len(eventSubscriber.onTileHoverEnd)

\* a delivery that calls a callback subscribed several times only once
InvokeOnce(list, event, x, y) ==
    LET First(i) == \A j \in 1..(i - 1) : list[j] # list[i]
        firsts == SelectSeq([i \in 1..Len(list) |-> i], First)
    IN [k \in 1..Len(firsts) |->
           [event |-> event, cb |-> list[firsts[k]], x |-> x, y |-> y]]

\* for (const cb of list) cb({x, y, originalMouseEvent}): the calls, in order
Invoke(list, event, x, y) ==
    [i \in 1..Len(list) |-> [event |-> event, cb |-> list[i], x |-> x, y |-> y]]

\* cb is subscribed to the hover-start list and to the hover-end list
InBothHoverLists(cb) ==
    /\ \E i \in 1..Len(eventSubscriber.onTileHover) :
           eventSubscriber.onTileHover[i] = cb
    /\ \E i \in 1..Len(eventSubscriber.onTileHoverEnd) :
           eventSubscriber.onTileHoverEnd[i] = cb

\* the hover-start and hover-end calls among calls that were made to cb
HoverCallsTo(calls, cb) ==
    LET Mine(c) == c.cb = cb /\ c.event \in {"hover", "hoverEnd"}
    IN SelectSeq(calls, Mine)

\* seen once the callbacks have been called as in calls
SeenAfter(calls) ==
    [cb \in Callbacks |->
        IF InBothHoverLists(cb) /\ HoverCallsTo(calls, cb) # <<>>
        THEN HoverCallsTo(calls, cb)[Len(HoverCallsTo(calls, cb))]
        ELSE seen[cb]]

\* a subscription or pointer event: the world model is not touched
NoWorldChange ==
    /\ afterAdd' = FALSE
    /\ prevHovered' = lastHoveredTile
    /\ prevHidden' = hiddenLayers
    /\ NoResult
    /\ seen' = SeenAfter(emitted')
    /\ UNCHANGED <<config, runtimeLayers, hiddenLayers, dom, render, parser,
                   manager, instance>>

\* SceneBuilder.onTileClickedEvent
OnTileClickedEvent(cb) ==
    /\ Subscriptions < MaxSubscriptions
    /\ eventSubscriber' = [eventSubscriber EXCEPT
                              !.onTileClicked = Append(@, cb)]
    /\ subscribedOn' = [subscribedOn EXCEPT !.onTileClicked = Append(@, instance)]
    /\ lastOp' = Op("onTileClickedEvent", cb, 0, 0, <<>>, OK)
    /\ emitted' = <<>>
    /\ UNCHANGED lastHoveredTile
    /\ NoWorldChange

\* SceneBuilder.onTileHoverEvent
OnTileHoverEvent(cb) ==
    /\ Subscriptions < MaxSubscriptions
    /\ eventSubscriber' = [eventSubscriber EXCEPT !.onTileHover = Append(@, cb)]
    /\ subscribedOn' = [subscribedOn EXCEPT !.onTileHover = Append(@, instance)]
    /\ lastOp' = Op("onTileHoverEvent", cb, 0, 0, <<>>, OK)
    /\ emitted' = <<>>
    /\ UNCHANGED lastHoveredTile
    /\ NoWorldChange

\* SceneBuilder.onTileHoverEndEvent
OnTileHoverEndEvent(cb) ==
    /\ Subscriptions < MaxSubscriptions
    /\ eventSubscriber' = [eventSubscriber EXCEPT
                              !.onTileHoverEnd = Append(@, cb)]
    /\ subscribedOn' = [subscribedOn EXCEPT !.onTileHoverEnd = Append(@, instance)]
    /\ lastOp' = Op("onTileHoverEndEvent", cb, 0, 0, <<>>, OK)
    /\ emitted' = <<>>
    /\ UNCHANGED lastHoveredTile
    /\ NoWorldChange

\* this.lastHoveredTile && this.lastHoveredTile.x !== -1 && this.lastHoveredTile.y !== -1
HasHoveredTile == lastHoveredTile.x # -1 /\ lastHoveredTile.y # -1

\* wrapper.onmousemove with the hover-start callbacks run before the
\* hover-end callbacks
onmousemoveStartFirst(hasCoords, x, y) ==
    IF ~hasCoords THEN [last |-> lastHoveredTile, calls |-> <<>>]
    ELSE IF lastHoveredTile.x = x /\ lastHoveredTile.y = y
    THEN [last |-> lastHoveredTile, calls |-> <<>>]
    ELSE [last |-> [x |-> x, y |-> y],
          calls |-> Invoke(eventSubscriber.onTileHover, "hover", x, y)
                    \o (IF HasHoveredTile
                        THEN Invoke(eventSubscriber.onTileHoverEnd, "hoverEnd",
                                    lastHoveredTile.x, lastHoveredTile.y)
                        ELSE <<>>)]

\* wrapper.onmousemove without the hover-end callbacks for the cell left
onmousemoveNoEnd(hasCoords, x, y) ==
    IF ~hasCoords THEN [last |-> lastHoveredTile, calls |-> <<>>]
    ELSE IF lastHoveredTile.x = x /\ lastHoveredTile.y = y
    THEN [last |-> lastHoveredTile, calls |-> <<>>]
    ELSE [last |-> [x |-> x, y |-> y],
          calls |-> Invoke(eventSubscriber.onTileHover, "hover", x, y)]

\* wrapper.onmousemove on a target whose dataset has coordinates (hasCoords)
\* or not (parseInt gives NaN): the new lastHoveredTile and the callbacks run
onmousemove(hasCoords, x, y) ==
    IF ~hasCoords THEN [last |-> lastHoveredTile, calls |-> <<>>]
    ELSE IF lastHoveredTile.x = x /\ lastHoveredTile.y = y
    THEN [last |-> lastHoveredTile, calls |-> <<>>]
    ELSE [last |-> [x |-> x, y |-> y],
          calls |-> (IF HasHoveredTile
                     THEN Invoke(eventSubscriber.onTileHoverEnd, "hoverEnd",
                                 lastHoveredTile.x, lastHoveredTile.y)
                     ELSE <<>>)
                    \o Invoke(eventSubscriber.onTileHover, "hover", x, y)]

\* wrapper.onmouseleave leaving lastHoveredTile as it is
onmouseleaveKeepsTile ==
    [last |-> lastHoveredTile,
     calls |-> IF HasHoveredTile
               THEN Invoke(eventSubscriber.onTileHoverEnd, "hoverEnd",
                           lastHoveredTile.x, lastHoveredTile.y)
               ELSE <<>>]

\* wrapper.onmouseleave: the new lastHoveredTile and the callbacks run
onmouseleave ==
    [last |-> NoTile,
     calls |-> IF HasHoveredTile
               THEN Invoke(eventSubscriber.onTileHoverEnd, "hoverEnd",
                           lastHoveredTile.x, lastHoveredTile.y)
               ELSE <<>>]

\* the pointer moves over the tile element of cell (x, y)
MouseMove(x, y) ==
    /\ lastHoveredTile' = onmousemove(TRUE, x, y).last
    /\ emitted' = onmousemove(TRUE, x, y).calls
    /\ lastOp' = Op("mousemove", "", x, y, <<>>, OK)
    /\ UNCHANGED <<eventSubscriber, subscribedOn>>
    /\ NoWorldChange

\* the pointer moves over an element without data-x / data-y
MouseMoveNoData ==
    /\ lastHoveredTile' = onmousemove(FALSE, 0, 0).last
    /\ emitted' = onmousemove(FALSE, 0, 0).calls
    /\ lastOp' = Op("mousemoveNoData", "", 0, 0, <<>>, OK)
    /\ UNCHANGED <<eventSubscriber, subscribedOn>>
    /\ NoWorldChange

\* the pointer leaves the wrapper
MouseLeave ==
    /\ lastHoveredTile' = onmouseleave.last
    /\ emitted' = onmouseleave.calls
    /\ lastOp' = Op("mouseleave", "", 0, 0, <<>>, OK)
    /\ UNCHANGED <<eventSubscriber, subscribedOn>>
    /\ NoWorldChange

\* tileEl.onmousedown on the tile element of cell (x, y)
MouseDown(x, y) ==
    /\ emitted' = Invoke(eventSubscriber.onTileClicked, "clicked", x, y)
    /\ lastOp' = Op("mousedown", "", x, y, <<>>, OK)
    /\ UNCHANGED <<eventSubscriber, subscribedOn, lastHoveredTile>>
    /\ NoWorldChange

\* SceneBuilder.refresh: buildScene replaces the wrapper unless a tile
\* element cannot be created
Refresh ==
    /\ lastOp' = Op("refresh", "", 0, 0, <<>>, BuildSceneError(AllLayers))
    /\ dom' = IF BuildSceneError(AllLayers) = OK THEN BuiltDom(AllLayers) ELSE dom
    /\ render' = IF BuildSceneError(AllLayers) = OK THEN NewPass(AllLayers)
                 ELSE render
    /\ emitted' = <<>>
    /\ afterAdd' = FALSE
    /\ prevHovered' = lastHoveredTile
    /\ prevHidden' = hiddenLayers
    /\ NoResult
    /\ UNCHANGED <<config, runtimeLayers, hiddenLayers, eventSubscriber,
                   lastHoveredTile, parser, manager, instance, subscribedOn, seen>>

NextHover ==
    \/ \E cb \in Callbacks : OnTileClickedEvent(cb)
    \/ \E cb \in Callbacks : OnTileHoverEvent(cb)
    \/ \E cb \in Callbacks : OnTileHoverEndEvent(cb)
    \/ \E p \in Cells : MouseMove(p[1], p[2])
    \/ MouseMoveNoData
    \/ MouseLeave
    \/ \E p \in Cells : MouseDown(p[1], p[2])
    \/ Refresh

SpecHover == Init /\ [][NextHover]_vars

\* callbacks subscribed to the hover lists while the pointer is on no cell,
\* then pointer moves, pointer leaves and refreshes
NextAlternation ==
    \/ \E cb \in Callbacks : ~HasHoveredTile /\ OnTileHoverEvent(cb)
    \/ \E cb \in Callbacks : ~HasHoveredTile /\ OnTileHoverEndEvent(cb)
    \/ \E p \in Cells : MouseMove(p[1], p[2])
    \/ MouseMoveNoData
    \/ MouseLeave
    \/ Refresh

SpecAlternation == Init /\ [][NextAlternation]_vars

-----------------------------------------------------------------------------
(* Layer visibility.                                                       *)

\* SceneBuilder.isLayerHidden: this.hiddenLayers.includes(layerName)
isLayerHidden(layerName) ==
    \E i \in 1..Len(hiddenLayers) : hiddenLayers[i] = layerName

\* el.style.display = display on the first element of class tw-layer--layerName
SetDisplay(layerName, display) ==
    IF FindByName(dom, layerName) = 0 THEN dom
    ELSE [dom EXCEPT ![FindByName(dom, layerName)].display = display]

\* hideLayer pushing the name without asking whether it is hidden already
hideLayerAlways(layerName) ==
    [hidden |-> Append(hiddenLayers, layerName),
     dom |-> SetDisplay(layerName, "none")]

\* SceneBuilder.hideLayer: the new hiddenLayers and wrapper children
hideLayer(layerName) ==
    IF ~isLayerHidden(layerName)
    THEN [hidden |-> Append(hiddenLayers, layerName),
          dom |-> SetDisplay(layerName, "none")]
    ELSE [hidden |-> hiddenLayers, dom |-> dom]

\* SceneBuilder.showLayer: the new hiddenLayers and wrapper children
showLayer(layerName) ==
    LET Other(name) == name # layerName
    IN IF isLayerHidden(layerName)
       THEN [hidden |-> SelectSeq(hiddenLayers, Other),
             dom |-> SetDisplay(layerName, "grid")]
       ELSE [hidden |-> hiddenLayers, dom |-> dom]

\* SceneBuilder.toggleLayer
toggleLayer(layerName) ==
    IF isLayerHidden(layerName) THEN showLayer(layerName) ELSE hideLayer(layerName)

\* a visibility call: grids, subscriptions and the render pass are not touched
VisibilityStep ==
    /\ emitted' = <<>>
    /\ afterAdd' = FALSE
    /\ prevHovered' = lastHoveredTile
    /\ prevHidden' = hiddenLayers
    /\ NoResult
    /\ UNCHANGED <<config, runtimeLayers, eventSubscriber, lastHoveredTile,
                   render, parser, manager, instance, subscribedOn, seen>>

\* a call of hideLayer(layerName)
HideLayer(layerName) ==
    /\ hiddenLayers' = hideLayer(layerName).hidden
    /\ dom' = hideLayer(layerName).dom
    /\ lastOp' = Op("hideLayer", layerName, 0, 0, <<>>, OK)
    /\ VisibilityStep

\* a call of showLayer(layerName)
ShowLayer(layerName) ==
    /\ hiddenLayers' = showLayer(layerName).hidden
    /\ dom' = showLayer(layerName).dom
    /\ lastOp' = Op("showLayer", layerName, 0, 0, <<>>, OK)
    /\ VisibilityStep

\* a call of toggleLayer(layerName)
ToggleLayer(layerName) ==
    /\ hiddenLayers' = toggleLayer(layerName).hidden
    /\ dom' = toggleLayer(layerName).dom
    /\ lastOp' = Op("toggleLayer", layerName, 0, 0, <<>>, OK)
    /\ VisibilityStep

NextVisibility ==
    \/ \E n \in LayerNames : HideLayer(n)
    \/ \E n \in LayerNames : ShowLayer(n)
    \/ \E n \in LayerNames : ToggleLayer(n)
    \/ \E n \in LayerNames : CreateRuntimeLayer(n)
    \/ Refresh

SpecVisibility == Init /\ [][NextVisibility]_vars

\* a call of isLayerHidden(layerName); it returns isLayerHidden(layerName)
IsLayerHidden(layerName) ==
    /\ lastOp' = Op("isLayerHidden", layerName, 0, 0, <<>>, OK)
    /\ afterAdd' = FALSE
    /\ NoEvents
    /\ NoResult
    /\ UNCHANGED <<runtimeLayers, dom>>

\* tiles placed and removed on the runtime layer top, with the queries and a
\* hidden layer
NextFrame ==
    \/ CreateRuntimeLayer("top")
    \/ \E n \in {"top", "ground"}, p \in Positions, c \in TileCodes :
           AddTile(n, p[1], p[2], c)
    \/ \E n \in {"top", "ground"}, p \in Positions : RemoveTile(n, p[1], p[2])
    \/ \E p \in Cells : GetTileMetadataStack(p[1], p[2])
    \/ \E p \in Cells : GetProps(p[1], p[2])
    \/ \E p \in Cells : GetPropsFromHighestTile(p[1], p[2])
    \/ \E n \in {"top", "ground"} : IsLayerHidden(n)
    \/ HideLayer("top")

SpecFrame == Init /\ [][NextFrame]_vars

-----------------------------------------------------------------------------
(* The Tile Validator on its own.                                          *)

\* characters of the codes given to the validator: letters of both cases, the
\* digit 0 and another digit, a blank and a character that is neither
CodeChars == {"G", "a", "0", "7", " ", "-"}

MaxCodeLen == 3

\* every string of at most MaxCodeLen of these characters
Codes == UNION {[1..n -> CodeChars] : n \in 0..MaxCodeLen}

\* a call of TileValidator.validateTileFormat(tile, context)
ValidateTile(tile) ==
    /\ lastOp' = Op("validateTileFormat", "", 0, 0, tile, ValidateTileFormat(tile))
    /\ afterAdd' = FALSE
    /\ NoEvents
    /\ NoResult
    /\ UNCHANGED <<runtimeLayers, dom>>

NextValidate == \E tile \in Codes : ValidateTile(tile)

SpecValidate == Init /\ [][NextValidate]_vars

-----------------------------------------------------------------------------
(* Image loading of a render pass.                                         *)

\* an image event: the world model and the subscriptions are not touched
RenderStep ==
    /\ emitted' = <<>>
    /\ afterAdd' = FALSE
    /\ prevHovered' = lastHoveredTile
    /\ prevHidden' = hiddenLayers
    /\ NoResult
    /\ UNCHANGED <<config, runtimeLayers, hiddenLayers, eventSubscriber,
                   lastHoveredTile, dom, parser, manager, instance, subscribedOn,
                   seen>>

\* img.onload of the pass's image i: the tile gets its background and
\* resolve() fulfils the promise
ImageLoad(i) ==
    /\ render.images[i].img = "loading"
    /\ render' = [render EXCEPT !.images[i].img = "loaded",
                                !.images[i].promise = "fulfilled"]
    /\ lastOp' = Op("imageLoad", "", i, 0, <<>>, OK)
    /\ RenderStep

\* img.onerror of the pass's image i: reject(TWErrorHandler.throw(...)) first
\* evaluates its argument, which logs the error and throws it out of the event
\* handler, so reject is never called and the promise stays pending
ImageError(i) ==
    /\ render.images[i].img = "loading"
    /\ render' = [render EXCEPT
                      !.images[i].img = "error",
                      !.log = Append(@, [code |-> FAILED_TO_LOAD_IMAGE,
                                         image |-> i,
                                         tileset |-> render.images[i].tileset])]
    /\ lastOp' = Op("imageError", "", i, 0, <<>>, FAILED_TO_LOAD_IMAGE)
    /\ RenderStep

\* the state of Promise.all(promises) that the promises call for
promiseAll(images) ==
    IF \E i \in 1..Len(images) : images[i].promise = "rejected" THEN "rejected"
    ELSE IF \A i \in 1..Len(images) : images[i].promise = "fulfilled"
    THEN "fulfilled"
    ELSE "pending"

\* Promise.all(promises) settles and its then or catch callback runs
PassSettles ==
    /\ render.all = "pending"
    /\ promiseAll(render.images) # "pending"
    /\ render' = [render EXCEPT !.all = promiseAll(render.images)]
    /\ lastOp' = Op("passSettles", "", 0, 0, <<>>, OK)
    /\ RenderStep

\* some image of the pass loads or fails
ImageEvent == \E i \in 1..Len(render.images) : ImageLoad(i) \/ ImageError(i)

\* the image events of the last pass, and calls that give the next pass another
\* image: a runtime layer "top", a tile G1 on it, and refresh
NextRender ==
    \/ \E i \in 1..Len(render.images) : ImageLoad(i)
    \/ \E i \in 1..Len(render.images) : ImageError(i)
    \/ PassSettles
    \/ CreateRuntimeLayer("top")
    \/ AddTile("top", 0, 0, G1)
    \/ Refresh

\* every image the browser is loading ends in onload or onerror, and the job
\* queue runs the reactions of a settled promise
SpecRender ==
    Init /\ [][NextRender]_vars /\ WF_vars(ImageEvent) /\ WF_vars(PassSettles)

-----------------------------------------------------------------------------
(* TWMConfigParser.parseConfig, one line of the loop per step.             *)

\* what a handler leaves behind: the parser state, and OK or the code thrown
Ret(state, err) == [state |-> state, err |-> err]

\* obj.field is a non-empty string
Truthy(obj, field) == field \in DOMAIN obj /\ obj[field] # <<>>

\* (state.config.layers as TWMLayer[]).push(state.currentLayer) if it has a name
PushCurrentLayer(state) ==
    IF Truthy(state.currentLayer, "name")
    THEN [state EXCEPT !.config.layers = Append(@, state.currentLayer)]
    ELSE state

\* handleSectionHeader taking a header it does not know for no header at all
handleSectionHeaderLenient(line, state) ==
    LET section == Slice1(line)
    IN IF section = S_main
       THEN Ret([state EXCEPT !.currentSection = "main"], OK)
       ELSE IF StartsWith(section, S_tileset \o <<":">>)
       THEN Ret([state EXCEPT !.currentSection = "tileset",
                              !.tempTileset = [id |-> Split(section, ":")[2]]],
                OK)
       ELSE IF StartsWith(section, S_layer \o <<":">>)
       THEN Ret([PushCurrentLayer(state) EXCEPT
                     !.currentSection = "layer",
                     !.currentLayer = [name |-> Split(section, ":")[2],
                                       tiles |-> <<>>]],
                OK)
       ELSE IF section = S_props
       THEN Ret([state EXCEPT !.currentSection = "props"], OK)
       ELSE Ret(state, OK)

\* TWMConfigParser.handleSectionHeader
handleSectionHeader(line, state) ==
    LET section == Slice1(line)
    IN IF section = S_main
       THEN Ret([state EXCEPT !.currentSection = "main"], OK)
       ELSE IF StartsWith(section, S_tileset \o <<":">>)
       THEN Ret([state EXCEPT !.currentSection = "tileset",
                              !.tempTileset = [id |-> Split(section, ":")[2]]],
                OK)
       ELSE IF StartsWith(section, S_layer \o <<":">>)
       THEN Ret([PushCurrentLayer(state) EXCEPT
                     !.currentSection = "layer",
                     !.currentLayer = [name |-> Split(section, ":")[2],
                                       tiles |-> <<>>]],
                OK)
       ELSE IF section = S_props
       THEN Ret([state EXCEPT !.currentSection = "props"], OK)
       ELSE Ret(state, UNKNOWN_SECTION)

\* !config.main
NoMain(cfg) == "main" \notin DOMAIN cfg

\* TWMConfigParser.handleMain
handleMain(key, value, state) ==
    LET cfg == IF NoMain(state.config)
               THEN state.config @@ [main |-> EmptyMap]
               ELSE state.config
    IN IF key \notin {S_tileSize, S_width, S_height}
       THEN Ret([state EXCEPT !.config = cfg], MISSING_KEY_VALUE)
       ELSE Ret([state EXCEPT !.config =
                    [cfg EXCEPT !.main = Assign(@, key :> Number(value))]], OK)

\* tempTileset after the key of a tileset section is stored
StoreTilesetKey(tempTileset, key, value) ==
    IF key = S_tileset THEN Assign(tempTileset, [tileset |-> value])
    ELSE IF key = S_short THEN Assign(tempTileset, [short |-> value])
    ELSE tempTileset

\* handleTileset without the look for a tileset of the same id
handleTilesetShortOnly(key, value, state) ==
    LET temp == StoreTilesetKey(state.tempTileset, key, value)
        tilesets == state.config.tilesets
    IN IF ~(Truthy(temp, "id") /\ Truthy(temp, "tileset") /\ Truthy(temp, "short"))
       THEN Ret([state EXCEPT !.tempTileset = temp], OK)
       ELSE IF \E i \in 1..Len(tilesets) : tilesets[i].short = temp.short
       THEN Ret([state EXCEPT !.tempTileset = temp], DUPLICATE_TILESET)
       ELSE Ret([state EXCEPT !.config.tilesets = Append(@, temp),
                              !.tempTileset = EmptyMap], OK)

\* TWMConfigParser.handleTileset
handleTileset(key, value, state) ==
    LET temp == StoreTilesetKey(state.tempTileset, key, value)
        tilesets == state.config.tilesets
    IN IF ~(Truthy(temp, "id") /\ Truthy(temp, "tileset") /\ Truthy(temp, "short"))
       THEN Ret([state EXCEPT !.tempTileset = temp], OK)
       ELSE IF \E i \in 1..Len(tilesets) : tilesets[i].short = temp.short
       THEN Ret([state EXCEPT !.tempTileset = temp], DUPLICATE_TILESET)
       ELSE IF \E i \in 1..Len(tilesets) : tilesets[i].id = temp.id
       THEN Ret([state EXCEPT !.tempTileset = temp], DUPLICATE_TILESET)
       ELSE Ret([state EXCEPT !.config.tilesets = Append(@, temp),
                              !.tempTileset = EmptyMap], OK)

\* strs.map(s => s.trim())
TrimAll(strs) == [i \in 1..Len(strs) |-> Trim(strs[i])]

\* value.split(';').map(r => r.trim()).filter(Boolean)
TileRows(value) ==
    LET NotBlank(r) == r # <<>>
    IN SelectSeq(TrimAll(Split(value, ";")), NotBlank)

\* rows.map(row => row.split(',').map(cell => cell.trim()))
TileGrid(rows) == [r \in 1..Len(rows) |-> TrimAll(Split(rows[r], ","))]

\* handleLayer without the filter that drops the blank rows
handleLayerKeepsBlankRows(key, value, state) ==
    LET layer == IF "tiles" \in DOMAIN state.currentLayer THEN state.currentLayer
                 ELSE Assign(state.currentLayer, [tiles |-> <<>>])
        layers == state.config.layers
        grid == TileGrid(TrimAll(Split(value, ";")))
    IN IF key # S_tiles THEN Ret([state EXCEPT !.currentLayer = layer], OK)
       ELSE IF \E i \in 1..Len(layers) :
                   "name" \in DOMAIN layer /\ layers[i].name = layer.name
       THEN Ret([state EXCEPT !.currentLayer = layer], DUPLICATE_LAYER)
       ELSE IF \E r \in 1..Len(grid) : \E c \in 1..Len(grid[r]) :
                   ValidateTileFormat(grid[r][c]) # OK
       THEN Ret([state EXCEPT !.currentLayer = layer], INVALID_TILE_SYNTAX)
       ELSE Ret([state EXCEPT !.currentLayer = Assign(layer, [tiles |-> grid])],
                OK)

\* TWMConfigParser.handleLayer
handleLayer(key, value, state) ==
    LET layer == IF "tiles" \in DOMAIN state.currentLayer THEN state.currentLayer
                 ELSE Assign(state.currentLayer, [tiles |-> <<>>])
        layers == state.config.layers
        grid == TileGrid(TileRows(value))
    IN IF key # S_tiles THEN Ret([state EXCEPT !.currentLayer = layer], OK)
       ELSE IF \E i \in 1..Len(layers) :
                   "name" \in DOMAIN layer /\ layers[i].name = layer.name
       THEN Ret([state EXCEPT !.currentLayer = layer], DUPLICATE_LAYER)
       ELSE IF \E r \in 1..Len(grid) : \E c \in 1..Len(grid[r]) :
                   ValidateTileFormat(grid[r][c]) # OK
       THEN Ret([state EXCEPT !.currentLayer = layer], INVALID_TILE_SYNTAX)
       ELSE Ret([state EXCEPT !.currentLayer = Assign(layer, [tiles |-> grid])],
                OK)

\* map[identifier] ??= {}; map[identifier][propKey] = value
SetProp(map, identifier, propKey, value) ==
    Assign(map, identifier :> Assign(Lookup(map, identifier), propKey :> value))

\* handleProps looking at the type before it counts the segments
handlePropsTypeFirst(key, value, state) ==
    LET parts == Split(key, ".")
        type == parts[1]
    IN IF type \notin {S_tileset, S_layer, S_tile}
       THEN Ret(state, UNKNOWN_PROP_TYPE)
       ELSE IF Len(parts) < 3 THEN Ret(state, UNKNOWN_PROP_FORMAT)
       ELSE IF type = S_tileset
       THEN Ret([state EXCEPT !.config.props.tilesets =
                    SetProp(@, parts[2], parts[3], value)], OK)
       ELSE IF type = S_layer
       THEN Ret([state EXCEPT !.config.props.layers =
                    SetProp(@, parts[2], parts[3], value)], OK)
       ELSE Ret([state EXCEPT !.config.props.tiles =
                    SetProp(@, parts[2], parts[3], value)], OK)

\* TWMConfigParser.handleProps
handleProps(key, value, state) ==
    LET parts == Split(key, ".")
    IN IF Len(parts) < 3 THEN Ret(state, UNKNOWN_PROP_FORMAT)
       ELSE LET type == parts[1]
                identifier == parts[2]
                propKey == parts[3]
            IN IF type = S_tileset
               THEN Ret([state EXCEPT !.config.props.tilesets =
                            SetProp(@, identifier, propKey, value)], OK)
               ELSE IF type = S_layer
               THEN Ret([state EXCEPT !.config.props.layers =
                            SetProp(@, identifier, propKey, value)], OK)
               ELSE IF type = S_tile
               THEN Ret([state EXCEPT !.config.props.tiles =
                            SetProp(@, identifier, propKey, value)], OK)
               ELSE Ret(state, UNKNOWN_PROP_TYPE)

\* TWMConfigParser.handleKeyValue
handleKeyValue(key, value, state) ==
    IF state.currentSection = "main" THEN handleMain(key, value, state)
    ELSE IF state.currentSection = "tileset" THEN handleTileset(key, value, state)
    ELSE IF state.currentSection = "layer" THEN handleLayer(key, value, state)
    ELSE IF state.currentSection = "props" THEN handleProps(key, value, state)
    ELSE Ret(state, UNKNOWN_SECTION)

\* the body of parseConfig's loop for one raw line
parseLine(rawLine, state) ==
    LET line == Trim(rawLine)
    IN IF line = <<>> \/ StartsWith(line, <<"#">>) THEN Ret(state, OK)
       ELSE IF StartsWith(line, <<"[">>) THEN handleSectionHeader(line, state)
       ELSE LET parts == Split(line, "=")
            IN IF Len(parts) < 2 THEN Ret(state, MISSING_KEY_VALUE)
               ELSE handleKeyValue(Trim(parts[1]), Trim(parts[2]), state)

\* a step of the parser: the scene is not touched
ParserStep ==
    UNCHANGED <<config, runtimeLayers, hiddenLayers, eventSubscriber,
                lastHoveredTile, dom, lastOp, retStack, retProps, emitted,
                afterAdd, prevHovered, prevHidden, render, manager, instance,
                subscribedOn, seen>>

\* the loop of parseConfig takes the next line of the text, rawLine
ParseLine(rawLine) ==
    /\ parser.pc = "lines"
    /\ LET r == parseLine(rawLine, parser.state)
       IN parser' = [pc |-> IF r.err = OK THEN "lines" ELSE "failed",
                     state |-> r.state,
                     err |-> r.err,
                     text |-> Append(parser.text, rawLine)]
    /\ ParserStep

\* the text has no more lines: the last layer is pushed and the config
\* returned, unless it has no main
ParseEnd ==
    /\ parser.pc = "lines"
    /\ LET state == PushCurrentLayer(parser.state)
       IN parser' = [pc |-> IF NoMain(state.config) THEN "failed" ELSE "done",
                     state |-> state,
                     err |-> IF NoMain(state.config) THEN MISSING_SECTION ELSE OK,
                     text |-> parser.text]
    /\ ParserStep

-----------------------------------------------------------------------------
(* The texts the parser is given, by theme: each text is a sequence of     *)
(* lines of one pool, at most as long as the pool's bound.                 *)

\* the line [name]
Header(name) == <<"[">> \o name \o <<"]">>

\* the line key=value
KV(key, value) == key \o <<"=">> \o value

S0 == <<"0">>
S1 == <<"S", "1">>
G0 == <<"G", "0">>
g2 == <<"g", "2">>

\* section headers known and unknown, a main key, a comment, a blank line and
\* a line without '='
SectionLines ==
    { Header(S_main),
      KV(S_width, <<"2">>),
      Header(S_props),
      Header(<<"b", "o", "g", "u", "s">>),
      <<" ", "#", " ", "c">>,
      <<" ", " ">>,
      S_width }

MaxSectionLines == 3

\* two tileset ids, an image path and two shorts
TilesetLines ==
    { Header(S_tileset \o <<":", "a">>),
      Header(S_tileset \o <<":", "b">>),
      KV(S_tileset, <<"t">>),
      KV(S_short, <<"G">>),
      KV(S_short, <<"H">>) }

MaxTilesetLines == 6

\* a main section, two layer names, and tiles lines: the grid G0,0;0,S1, one with
\* padded cells and a blank row, and one with the malformed cell 1G
LayerLines ==
    { Header(S_main),
      KV(S_width, <<"1">>),
      Header(S_layer \o <<":", "a">>),
      Header(S_layer \o <<":", "b">>),
      KV(S_tiles, G0 \o <<",">> \o S0 \o <<";">> \o S0 \o <<",">> \o S1),
      KV(S_tiles, <<" ">> \o G1 \o <<" ", ",">> \o S0 \o <<" ", ";", ";", " ">> \o g2),
      KV(S_tiles, G1 \o <<",", "1", "G">>) }

MaxLayerLines == 4

\* the line type.identifier.propKey=value
PropLine(type, identifier, propKey, value) ==
    KV(type \o <<".">> \o identifier \o <<".">> \o propKey, value)

\* props lines of the three types, one entry set twice, keys of two and of four
\* segments, and types that do not exist
PropsLines ==
    { Header(S_props),
      PropLine(S_tile, G1, <<"s">>, <<"1">>),
      PropLine(S_tile, G1, <<"s">>, <<"2">>),
      PropLine(S_layer, <<"a">>, <<"s">>, <<"1">>),
      PropLine(S_tileset, <<"a">>, <<"s">>, <<"1">>),
      KV(S_tile \o <<".">> \o G1, <<"1">>),
      KV(<<"x", ".", "y">>, <<"1">>),
      PropLine(<<"x">>, <<"a">>, <<"s">>, <<"1">>),
      PropLine(S_tile, G1, <<"s", ".", "t">>, <<"3">>) }

MaxPropsLines == 4

NextSections ==
    \/ \E l \in SectionLines : Len(parser.text) < MaxSectionLines /\ ParseLine(l)
    \/ ParseEnd

SpecSections == Init /\ [][NextSections]_vars

NextTilesets ==
    \/ \E l \in TilesetLines : Len(parser.text) < MaxTilesetLines /\ ParseLine(l)
    \/ ParseEnd

SpecTilesets == Init /\ [][NextTilesets]_vars

NextLayers ==
    \/ \E l \in LayerLines : Len(parser.text) < MaxLayerLines /\ ParseLine(l)
    \/ ParseEnd

SpecLayers == Init /\ [][NextLayers]_vars

NextProps ==
    \/ \E l \in PropsLines : Len(parser.text) < MaxPropsLines /\ ParseLine(l)
    \/ ParseEnd

SpecProps == Init /\ [][NextProps]_vars

\* key=value lines of a tileset and of the props section: values with one
\* '=' in them (an image URL u=1, a prop value a=b), a value that begins with
\* '=', and values without
KeyValueLines ==
    { Header(S_tileset \o <<":", "a">>),
      KV(S_tileset, <<"u", "=", "1">>),
      KV(S_tileset, <<"t">>),
      KV(S_short, <<"=", "G">>),
      KV(S_short, <<"G">>),
      Header(S_props),
      PropLine(S_tile, G1, <<"s">>, <<"a", "=", "b">>),
      PropLine(S_tile, G1, <<"s">>, <<" ", "x", " ">>) }

MaxKeyValueLines == 3

NextKeyValue ==
    \/ \E l \in KeyValueLines : Len(parser.text) < MaxKeyValueLines /\ ParseLine(l)
    \/ ParseEnd

SpecKeyValue == Init /\ [][NextKeyValue]_vars

\* a main section of width 1 and height 1, a layer, a tiles line of two rows of
\* two cells and one of one row of one cell
GridLines ==
    { Header(S_main),
      KV(S_width, <<"1">>),
      KV(S_height, <<"1">>),
      Header(S_layer \o <<":", "a">>),
      KV(S_tiles, G0 \o <<",">> \o S0 \o <<";">> \o S0 \o <<",">> \o S1),
      KV(S_tiles, G1) }

MaxGridLines == 5

NextGrid ==
    \/ \E l \in GridLines : Len(parser.text) < MaxGridLines /\ ParseLine(l)
    \/ ParseEnd

SpecGrid == Init /\ [][NextGrid]_vars

-----------------------------------------------------------------------------
(* TileWorldManager: the config it holds and the scenes it creates.        *)

NO_CONFIG_PROVIDED == "NO_CONFIG_PROVIDED"
INVALID_QUERY == "INVALID_QUERY"
MISSING_OR_INVALID_CONFIG == "MISSING_OR_INVALID_CONFIG"

\* the manager's config when none was given or loaded: null
NullConfig == [null |-> TRUE]

\* the manager's sceneBuilder before a scene is created: null
NoScene == 0

\* cfg without the property field
Without(cfg, field) == [k \in (DOMAIN cfg) \ {field} |-> cfg[k]]

\* what a manager is constructed with: nothing, a configuration, a
\* configuration that lacks layers, main or tilesets, or the object {}
ManagerConfigs ==
    Configs \cup {NullConfig, Without(ConfigA, "layers"), Without(ConfigA, "main"),
                  Without(ConfigB, "tilesets"), EmptyMap}

\* SceneBuilder instances constructed in one run
MaxScenes == 3

\* selector arguments: one that matches an element of the page, one that
\* matches none
Selectors == {"#scene", "#none"}

\* document.querySelector(selector) gives an element
querySelector(selector) == selector = "#scene"

\* the constructor of SceneBuilder testing the config before the selector
newSceneBuilderConfigFirst(selector, cfg) ==
    IF cfg = NullConfig \/ "layers" \notin DOMAIN cfg \/ "main" \notin DOMAIN cfg
           \/ "tilesets" \notin DOMAIN cfg
    THEN MISSING_OR_INVALID_CONFIG
    ELSE IF ~querySelector(selector) THEN INVALID_QUERY
    ELSE OK

\* new SceneBuilder(selector, cfg, settings) up to its call of buildScene: OK,
\* or the code it throws
newSceneBuilder(selector, cfg) ==
    IF ~querySelector(selector) THEN INVALID_QUERY
    ELSE IF cfg = NullConfig \/ "layers" \notin DOMAIN cfg \/ "main" \notin DOMAIN cfg
                \/ "tilesets" \notin DOMAIN cfg
    THEN MISSING_OR_INVALID_CONFIG
    ELSE OK

\* TileWorldManager.createScene: OK, or the code thrown by the manager or by
\* the constructor of SceneBuilder
createScene(selector) ==
    IF manager.config = NullConfig THEN NO_CONFIG_PROVIDED
    ELSE newSceneBuilder(selector, manager.config)

\* a call of the manager: the scene on the page is not touched
ManagerStep ==
    /\ emitted' = <<>>
    /\ afterAdd' = FALSE
    /\ prevHovered' = lastHoveredTile
    /\ prevHidden' = hiddenLayers
    /\ NoResult
    /\ UNCHANGED <<config, runtimeLayers, hiddenLayers, eventSubscriber,
                   lastHoveredTile, dom, render, parser, instance, subscribedOn,
                   seen>>

\* new TileWorldManager(cfg)
NewManager(cfg) ==
    /\ manager' = [config |-> cfg, sceneBuilder |-> NoScene]
    /\ lastOp' = Op("newManager", "", 0, 0, <<>>, OK)
    /\ ManagerStep

\* TileWorldManager.loadConfig with a text that parses to cfg
LoadConfig(cfg) ==
    /\ manager' = [manager EXCEPT !.config = cfg]
    /\ lastOp' = Op("loadConfig", "", 0, 0, <<>>, OK)
    /\ ManagerStep

\* a call of createScene(selector, settings); lastOp keeps the selector in
\* layerName.  When nothing is thrown a new
\* SceneBuilder takes the page: its lists are new, its eventSubscriber is the
\* module-level object the earlier instances have, and buildScene renders the
\* manager's config (every tile of the configurations given here has a tileset,
\* so buildScene does not throw)
CreateScene(selector) ==
    /\ instance < MaxScenes
    /\ lastOp' = Op("createScene", selector, 0, 0, <<>>, createScene(selector))
    /\ IF createScene(selector) # OK
       THEN UNCHANGED <<config, runtimeLayers, hiddenLayers, lastHoveredTile,
                        dom, render, manager, instance>>
       ELSE /\ config' = manager.config
            /\ runtimeLayers' = <<>>
            /\ hiddenLayers' = <<>>
            /\ lastHoveredTile' = NoTile
            /\ dom' = BuiltDom(manager.config.layers)
            /\ render' = NewPass(config.layers)'
            /\ instance' = instance + 1
            /\ manager' = [manager EXCEPT !.sceneBuilder = instance + 1]
    /\ emitted' = <<>>
    /\ afterAdd' = FALSE
    /\ prevHovered' = lastHoveredTile
    /\ prevHidden' = hiddenLayers
    /\ NoResult
    /\ UNCHANGED <<eventSubscriber, subscribedOn, seen, parser>>

\* managers and their scenes, and two calls that take the scene out of the
\* state it is built in
NextManager ==
    \/ \E cfg \in ManagerConfigs : NewManager(cfg)
    \/ \E cfg \in Configs : LoadConfig(cfg)
    \/ \E selector \in Selectors : CreateScene(selector)
    \/ CreateRuntimeLayer("top")
    \/ HideLayer("ground")

SpecManager == Init /\ [][NextManager]_vars

\* scenes created one after the other on the page's element, a callback
\* subscribed on the scene of the moment, and pointer events on it
NextScenes ==
    \/ CreateScene("#scene")
    \/ OnTileClickedEvent("cb1")
    \/ OnTileHoverEvent("cb1")
    \/ OnTileHoverEndEvent("cb1")
    \/ MouseDown(0, 0)
    \/ MouseMove(0, 0)
    \/ MouseLeave

SpecScenes == Init /\ [][NextScenes]_vars

-----------------------------------------------------------------------------
(* Properties of tile placement and layer creation.                        *)

\* the names of the runtime layers
RuntimeNames == {runtimeLayers[i].name : i \in 1..Len(runtimeLayers)}

\* the names of the static layers
StaticNames == {config.layers[i].name : i \in 1..Len(config.layers)}

\* C1: addTile reports the first failing check in the order syntax, layer,
\* position (INVALID_TILE_SYNTAX, else LAYER_NOT_FOUND for a name that is not a
\* runtime layer, else INVALID_TILE_POSITION outside 0 <= x < width,
\* 0 <= y < height), writes nothing when a check fails, and sets cell (x, y)
\* of the runtime layer to the tile code when all three pass.
AddTileChecksInOrder ==
    [][lastOp'.op = "addTile" =>
        LET a == lastOp'
            valid == ValidateTileFormat(a.tileCode) = OK
            isRuntime == a.layerName \in RuntimeNames
            inBounds == 0 <= a.x /\ a.x < Width /\ 0 <= a.y /\ a.y < Height
        IN /\ ~valid => a.err = INVALID_TILE_SYNTAX
           /\ (valid /\ ~isRuntime) => a.err = LAYER_NOT_FOUND
           /\ (valid /\ isRuntime /\ ~inBounds) => a.err = INVALID_TILE_POSITION
           /\ ~(valid /\ isRuntime /\ inBounds) => runtimeLayers' = runtimeLayers
           /\ (valid /\ isRuntime /\ inBounds) =>
                 /\ a.err \notin {INVALID_TILE_SYNTAX, LAYER_NOT_FOUND,
                                  INVALID_TILE_POSITION}
                 /\ getTileCodeFromLayer(runtimeLayers', a.layerName, a.x, a.y)
                        = a.tileCode
    ]_vars

\* C1 witness: a letters-only code on a static layer's name at x = width is
\* rejected for its syntax
AddTileSyntaxFirstReached ==
    /\ lastOp.op = "addTile"
    /\ lastOp.tileCode = lettersOnly
    /\ lastOp.layerName \in StaticNames
    /\ lastOp.x = Width
    /\ lastOp.err = INVALID_TILE_SYNTAX

\* C2: removeTile right after a successful addTile on the same cell of runtime
\* layer L leaves the cell at the empty marker, and the metadata stack of the
\* cell has no record of L.
AddThenRemoveRestoresEmpty ==
    (afterAdd /\ lastOp.op = "removeTile") =>
        /\ lastOp.err = OK
        /\ \A i \in 1..Len(runtimeLayers) :
              runtimeLayers[i].name = lastOp.layerName =>
                  TileAt(runtimeLayers[i], lastOp.x, lastOp.y) = EmptyTile
        /\ LET stack == getTileMetadataStack(lastOp.x, lastOp.y).stack
           IN \A k \in 1..Len(stack) : stack[k].layerName # lastOp.layerName

\* C2 witness: an add and a remove on a cell whose stack still has records
AddThenRemoveReached ==
    /\ afterAdd
    /\ lastOp.op = "removeTile"
    /\ lastOp.err = OK
    /\ getTileMetadataStack(lastOp.x, lastOp.y).err = OK
    /\ Len(getTileMetadataStack(lastOp.x, lastOp.y).stack) >= 1

\* C3: a successful createRuntimeLayer(name) appends exactly one layer, named
\* name, with height rows of width empty markers, to the runtime layer list.
CreateAppendsOneLayer ==
    [][(lastOp'.op = "createRuntimeLayer" /\ lastOp'.err = OK) =>
        runtimeLayers' =
            Append(runtimeLayers,
                   [name |-> lastOp'.layerName,
                    tiles |-> [r \in 1..Height |-> [c \in 1..Width |-> EmptyTile]]])
    ]_vars

\* C4: createRuntimeLayer(name) with the name of a static layer or of a runtime
\* layer created before fails with LAYER_ALREADY_EXISTS and leaves the runtime
\* layer list and all grids as they were.
CreateRejectsExistingName ==
    [][(lastOp'.op = "createRuntimeLayer"
            /\ lastOp'.layerName \in StaticNames \cup RuntimeNames) =>
        /\ lastOp'.err = LAYER_ALREADY_EXISTS
        /\ runtimeLayers' = runtimeLayers
        /\ config' = config
    ]_vars

\* C4 witness: a static layer's name is rejected while a runtime layer exists
CreateRejectedReached ==
    /\ lastOp.op = "createRuntimeLayer"
    /\ lastOp.err = LAYER_ALREADY_EXISTS
    /\ lastOp.layerName \in StaticNames
    /\ Len(runtimeLayers) > 0

-----------------------------------------------------------------------------
(* Properties of the metadata and props queries.                           *)

RECURSIVE NonEmptyCells(_, _, _)
\* per layer of layers, in order, whose cell (x, y) is not the empty marker:
\* the cell's code and the layer's name
NonEmptyCells(layers, x, y) ==
    IF layers = <<>> THEN <<>>
    ELSE LET rest == NonEmptyCells(Tail(layers), x, y)
             code == TileAt(Head(layers), x, y)
         IN IF code = EmptyTile THEN rest
            ELSE <<[tile |-> code, layerName |-> Head(layers).name]>> \o rest

\* the tile code and layer name of each record of a stack
TilesAndLayers(stack) ==
    [k \in 1..Len(stack) |->
        [tile |-> stack[k].tile, layerName |-> stack[k].layerName]]

\* C5: getTileMetadataStack(x, y) returns the empty sequence out of bounds and
\* otherwise one record per layer with a non-empty cell (x, y), static layers
\* as declared and then runtime layers as created, each with the cell's code
\* and the layer's name.
StackListsNonEmptyCells ==
    lastOp.op = "getTileMetadataStack" =>
        /\ lastOp.err = OK
        /\ IF 0 <= lastOp.x /\ lastOp.x < Width /\ 0 <= lastOp.y /\ lastOp.y < Height
           THEN TilesAndLayers(retStack) = NonEmptyCells(AllLayers, lastOp.x, lastOp.y)
           ELSE retStack = <<>>

\* the longest prefix of s made of letters of either case
AlphaPrefix(s) ==
    LET n == CHOOSE k \in 0..Len(s) :
                 /\ \A j \in 1..k : s[j] \in Letters
                 /\ (k < Len(s) => s[k + 1] \notin Letters)
    IN SubSeq(s, 1, n)

\* the shorts of the declared tilesets
Shorts == {config.tilesets[i].short : i \in 1..Len(config.tilesets)}

\* C6: every record's tilesetShort is the complete alphabetic prefix of its
\* tile code and its tilesetId the id of the tileset with that short, and the
\* call does not fail when every non-empty code at the cell passed validation
\* and has a declared tileset short as its prefix.
StackResolvesAlphaPrefix ==
    lastOp.op = "getTileMetadataStack" =>
        /\ \A k \in 1..Len(retStack) :
              /\ retStack[k].tilesetShort = AlphaPrefix(retStack[k].tile)
              /\ \E i \in 1..Len(config.tilesets) :
                    /\ config.tilesets[i].short = AlphaPrefix(retStack[k].tile)
                    /\ config.tilesets[i].id = retStack[k].tilesetId
        /\ (\A i \in 1..Len(AllLayers) :
               LET code == TileAt(AllLayers[i], lastOp.x, lastOp.y)
               IN code # EmptyTile =>
                     /\ ValidateTileFormat(code) = OK
                     /\ AlphaPrefix(code) \in Shorts)
           => lastOp.err = OK

\* the props of the tileset with this id
TilesetPropsOf(id) == Lookup(config.props.tilesets, id)

\* C7: a record's props take each key from the tile code's props if present
\* there, else from the layer's props, else from the tileset's props, and have
\* no other keys; an identifier without props contributes nothing.
RecordPropsByPrecedence ==
    lastOp.op = "getTileMetadataStack" =>
        \A k \in 1..Len(retStack) :
            LET rec == retStack[k]
                tp == Lookup(config.props.tiles, rec.tile)
                lp == Lookup(config.props.layers, rec.layerName)
                sp == TilesetPropsOf(rec.tilesetId)
            IN /\ DOMAIN rec.props = DOMAIN tp \cup DOMAIN lp \cup DOMAIN sp
               /\ \A key \in DOMAIN rec.props :
                     rec.props[key] = IF key \in DOMAIN tp THEN tp[key]
                                      ELSE IF key \in DOMAIN lp THEN lp[key]
                                      ELSE sp[key]

\* C7 witness: tileset {a: 1}, layer {a: 2, b: 3} and tile {b: 4} give {a: 2, b: 4}
RecordPropsExampleReached ==
    /\ lastOp.op = "getTileMetadataStack"
    /\ Len(retStack) >= 1
    /\ TilesetPropsOf(retStack[1].tilesetId) = [a |-> "1"]
    /\ Lookup(config.props.layers, retStack[1].layerName) = [a |-> "2", b |-> "3"]
    /\ Lookup(config.props.tiles, retStack[1].tile) = [b |-> "4"]
    /\ retStack[1].props = [a |-> "2", b |-> "4"]

\* the stack of the cell the last query asked about
QueriedStack == getTileMetadataStack(lastOp.x, lastOp.y).stack

\* the highest record of stack that has key
Highest(stack, key) ==
    CHOOSE k \in 1..Len(stack) :
        /\ key \in DOMAIN stack[k].props
        /\ \A j \in (k + 1)..Len(stack) : key \notin DOMAIN stack[j].props

\* C8: getProps(x, y) has the keys of all records of the stack, each with the
\* value of the highest record that has it, and is the empty map for an empty
\* stack or out of bounds; getPropsFromHighestTile(x, y) is the props of the
\* last record alone, and the empty map for an empty stack.
PropsFoldAndHighest ==
    /\ (lastOp.op = "getProps" /\ lastOp.err = OK) =>
          /\ DOMAIN retProps =
                UNION {DOMAIN QueriedStack[k].props : k \in 1..Len(QueriedStack)}
          /\ \A key \in DOMAIN retProps :
                retProps[key] =
                    QueriedStack[Highest(QueriedStack, key)].props[key]
          /\ QueriedStack = <<>> => retProps = EmptyMap
    /\ (lastOp.op = "getPropsFromHighestTile" /\ lastOp.err = OK) =>
          IF QueriedStack = <<>> THEN retProps = EmptyMap
          ELSE retProps = QueriedStack[Len(QueriedStack)].props
    /\ (lastOp.op \in {"getProps", "getPropsFromHighestTile"}
            /\ OutOfBounds(lastOp.x, lastOp.y)) =>
          lastOp.err = OK /\ retProps = EmptyMap

\* C8 witness: getProps on a stack of two records returns a key the top
\* record does not have
PropsFoldReached ==
    /\ lastOp.op = "getProps"
    /\ lastOp.err = OK
    /\ Len(QueriedStack) >= 2
    /\ DOMAIN retProps # DOMAIN QueriedStack[Len(QueriedStack)].props

-----------------------------------------------------------------------------
(* Properties of hover tracking.                                           *)

\* one call per entry of list, in order, with the coordinates of tile
CallsFor(list, event, tile) ==
    [i \in 1..Len(list) |->
        [event |-> event, cb |-> list[i], x |-> tile.x, y |-> tile.y]]

\* the cell the last pointer event was on
Pointed == [x |-> lastOp.x, y |-> lastOp.y]

\* C9: a move from a hovered cell A to another cell B calls every hover-end
\* subscription once with A and after that every hover-start subscription once
\* with B; a move inside the hovered cell calls nothing.
HoverEndThenStart ==
    /\ (lastOp.op = "mousemove" /\ prevHovered # NoTile /\ Pointed # prevHovered) =>
          /\ emitted = CallsFor(eventSubscriber.onTileHoverEnd, "hoverEnd", prevHovered)
                       \o CallsFor(eventSubscriber.onTileHover, "hover", Pointed)
          /\ lastHoveredTile = Pointed
    /\ (lastOp.op = "mousemove" /\ Pointed = prevHovered) =>
          /\ emitted = <<>>
          /\ lastHoveredTile = prevHovered

\* C9 witness: a move between two cells with two hover-end subscriptions and a
\* hover-start subscription
HoverMoveReached ==
    /\ lastOp.op = "mousemove"
    /\ prevHovered # NoTile
    /\ Pointed # prevHovered
    /\ Len(eventSubscriber.onTileHoverEnd) = 2
    /\ Len(eventSubscriber.onTileHover) = 1
    /\ Len(emitted) = 3

\* C10: a leave while a cell is hovered calls every hover-end subscription once
\* with that cell and clears the hovered cell, a leave with no hovered cell
\* calls nothing, and a move onto a cell while none is hovered calls the
\* hover-start subscriptions only.
LeaveEndsHover ==
    /\ lastOp.op = "mouseleave" =>
          /\ lastHoveredTile = NoTile
          /\ emitted = IF prevHovered # NoTile
                       THEN CallsFor(eventSubscriber.onTileHoverEnd, "hoverEnd",
                                     prevHovered)
                       ELSE <<>>
    /\ (lastOp.op = "mousemove" /\ prevHovered = NoTile) =>
          emitted = CallsFor(eventSubscriber.onTileHover, "hover", Pointed)

\* C10 witness: a leave from a hovered cell with a hover-end subscription
LeaveFromHoveredReached ==
    /\ lastOp.op = "mouseleave"
    /\ prevHovered # NoTile
    /\ Len(eventSubscriber.onTileHoverEnd) >= 1
    /\ Len(emitted) >= 1

-----------------------------------------------------------------------------
(* Properties of event delivery.                                           *)

\* a is a prefix of b
IsPrefix(a, b) == Len(a) <= Len(b) /\ SubSeq(b, 1, Len(a)) = a

\* the calls of one event kind among calls, in order
CallsOfKind(calls, event) ==
    LET OfKind(c) == c.event = event
    IN SelectSeq(calls, OfKind)

\* C11: a delivered event of a kind calls the entries of that kind's list, one
\* call per entry and in the order of the list, with the cell's coordinates; a
\* subscription appends the callback to its own kind's list and leaves the two
\* other lists alone; no step removes an entry from a list.
DeliveryInSubscriptionOrder ==
    [][LET op == lastOp'.op
           cell == [x |-> lastOp'.x, y |-> lastOp'.y]
           clicked == CallsOfKind(emitted', "clicked")
           hover == CallsOfKind(emitted', "hover")
           hoverEnd == CallsOfKind(emitted', "hoverEnd")
       IN /\ Len(clicked) + Len(hover) + Len(hoverEnd) = Len(emitted')
          /\ op = "mousedown" =>
                emitted' = CallsFor(eventSubscriber.onTileClicked, "clicked", cell)
          /\ op # "mousedown" => clicked = <<>>
          /\ hover \in {<<>>, CallsFor(eventSubscriber.onTileHover, "hover", cell)}
          /\ hoverEnd \in {<<>>, CallsFor(eventSubscriber.onTileHoverEnd,
                                          "hoverEnd", lastHoveredTile)}
          /\ op = "onTileClickedEvent" =>
                eventSubscriber' = [eventSubscriber EXCEPT
                    !.onTileClicked = Append(@, lastOp'.layerName)]
          /\ op = "onTileHoverEvent" =>
                eventSubscriber' = [eventSubscriber EXCEPT
                    !.onTileHover = Append(@, lastOp'.layerName)]
          /\ op = "onTileHoverEndEvent" =>
                eventSubscriber' = [eventSubscriber EXCEPT
                    !.onTileHoverEnd = Append(@, lastOp'.layerName)]
          /\ IsPrefix(eventSubscriber.onTileClicked, eventSubscriber'.onTileClicked)
          /\ IsPrefix(eventSubscriber.onTileHover, eventSubscriber'.onTileHover)
          /\ IsPrefix(eventSubscriber.onTileHoverEnd, eventSubscriber'.onTileHoverEnd)
    ]_vars

\* C11 witness: a click delivered to a list in which one callback is
\* subscribed twice, around another one
ClickDeliveredReached ==
    /\ lastOp.op = "mousedown"
    /\ eventSubscriber.onTileClicked = <<"cb2", "cb1", "cb2">>
    /\ Len(emitted) = 3
    /\ emitted[2].cb = "cb1"

-----------------------------------------------------------------------------
(* Properties of a render pass.                                            *)

\* every image of the pass has loaded or failed
AllResolved == \A i \in 1..Len(render.images) : render.images[i].img # "loading"

\* C12: once every image of a render pass has loaded or failed, the pass's
\* Promise.all settles (unless a refresh starts a new pass first); a failed
\* image is logged as FAILED_TO_LOAD_IMAGE for its tile, and its failure leaves
\* the other images of the pass as they are, free to load.
PassEventuallySettles ==
    /\ AllResolved ~> (render.all # "pending" \/ lastOp.op = "refresh")
    /\ [](\A i \in 1..Len(render.images) :
             render.images[i].img = "error" =>
                 \E k \in 1..Len(render.log) :
                     /\ render.log[k].code = FAILED_TO_LOAD_IMAGE
                     /\ render.log[k].image = i)
    /\ [][lastOp'.op = "imageError" =>
             \A j \in 1..Len(render.images) :
                 j # lastOp'.x => render'.images[j] = render.images[j]]_vars

-----------------------------------------------------------------------------
(* Properties of the config parser.                                        *)

\* s without the white space before its first and after its last other character
Core(s) ==
    LET inked == {i \in 1..Len(s) : s[i] \notin WhiteSpace}
    IN IF inked = {} THEN <<>>
       ELSE SubSeq(s, CHOOSE i \in inked : \A j \in inked : i <= j,
                      CHOOSE i \in inked : \A j \in inked : j <= i)

\* the parts of s between its separators sep, in order
Tokens(s, sep) ==
    LET cuts == {0, Len(s) + 1} \cup {i \in 1..Len(s) : s[i] = sep}
        Cut(k) == CHOOSE c \in cuts : Cardinality({d \in cuts : d < c}) = k
    IN [k \in 1..(Cardinality(cuts) - 1) |->
           SubSeq(s, Cut(k - 1) + 1, Cut(k) - 1)]

\* the text's line i without its surrounding white space
TextLine(i) == Core(parser.text[i])

\* a line the parser is to skip: blank or a comment
SkippedLine(l) == l = <<>> \/ l[1] = "#"

\* a line of the form [name]
Bracketed(l) == Len(l) >= 2 /\ l[1] = "[" /\ l[Len(l)] = "]"

\* the name of a line [name]
HeaderName(l) == SubSeq(l, 2, Len(l) - 1)

\* a line that is neither skipped nor a header and has an '='
KeyValueLine(l) ==
    /\ ~SkippedLine(l)
    /\ l[1] # "["
    /\ \E i \in 1..Len(l) : l[i] = "="

\* the key of a key=value line: the text before the first '='
KeyOf(l) == Core(Tokens(l, "=")[1])

\* the value of a key=value line
ValueOf(l) == Core(Tokens(l, "=")[2])

\* this step is the parser handling one more line, the last of the text
LineStep == Len(parser'.text) = Len(parser.text) + 1

\* the line handled by the step
StepLine == Core(parser'.text[Len(parser'.text)])

\* C13: a parse that reaches the end of the text without a [main] header in it
\* fails with MISSING_SECTION, and a parse of a text with a [main] header that
\* meets no other error does not fail with MISSING_SECTION.
MissingSectionIffNoMainHeader ==
    LET mainHeaderSeen ==
            \E i \in 1..Len(parser.text) : TextLine(i) = Header(S_main)
    IN /\ parser.pc = "done" => mainHeaderSeen
       /\ (parser.pc = "failed" /\ parser.err = MISSING_SECTION) => ~mainHeaderSeen

\* obj.field, the empty string if obj has no such field
Field(obj, field) == IF field \in DOMAIN obj THEN obj[field] ELSE <<>>

\* the tilesets finalized so far
Finalized == parser.state.config.tilesets

\* C14: the finalized tilesets never hold two tilesets of one id or of one
\* short, and each has a non-empty id, tileset and short; a tileset line that
\* completes the record in progress fails with DUPLICATE_TILESET when the
\* record's short or id is the one of a finalized tileset.
FinalizedTilesetsUnique ==
    /\ [](\A i, j \in 1..Len(Finalized) :
             /\ i # j => Finalized[i].id # Finalized[j].id
             /\ i # j => Finalized[i].short # Finalized[j].short
             /\ DOMAIN Finalized[i] = {"id", "tileset", "short"}
             /\ Finalized[i].id # <<>>
             /\ Finalized[i].tileset # <<>>
             /\ Finalized[i].short # <<>>)
    /\ [][(LineStep /\ parser.state.currentSection = "tileset"
               /\ KeyValueLine(StepLine)) =>
            LET temp == parser.state.tempTileset
                id == Field(temp, "id")
                tileset == IF KeyOf(StepLine) = S_tileset THEN ValueOf(StepLine)
                           ELSE Field(temp, "tileset")
                short == IF KeyOf(StepLine) = S_short THEN ValueOf(StepLine)
                         ELSE Field(temp, "short")
                complete == id # <<>> /\ tileset # <<>> /\ short # <<>>
                taken == \E i \in 1..Len(Finalized) :
                             Finalized[i].id = id \/ Finalized[i].short = short
            IN /\ (complete /\ taken) =>
                     /\ parser'.err = DUPLICATE_TILESET
                     /\ parser'.state.config.tilesets = Finalized
               /\ (complete /\ ~taken) =>
                     /\ parser'.err = OK
                     /\ parser'.state.config.tilesets =
                            Append(Finalized, [id |-> id, tileset |-> tileset,
                                               short |-> short])
               /\ ~complete => parser'.state.config.tilesets = Finalized
       ]_vars

\* C14 witness: a second tileset with a short of its own is refused for
\* carrying the id of the finalized one
DuplicateIdRefusedReached ==
    /\ parser.pc = "failed"
    /\ parser.err = DUPLICATE_TILESET
    /\ Len(Finalized) = 1
    /\ Field(parser.state.tempTileset, "id") = Finalized[1].id
    /\ Field(parser.state.tempTileset, "short") # Finalized[1].short

\* line i of the text is a header [layer:<name>]
LayerHeader(i) ==
    Bracketed(TextLine(i))
        /\ StartsWith(HeaderName(TextLine(i)), S_layer \o <<":">>)

\* the text declares two layer sections of one name
SameLayerDeclaredTwice ==
    \E i, j \in 1..Len(parser.text) :
        /\ i < j
        /\ LayerHeader(i)
        /\ LayerHeader(j)
        /\ TextLine(i) = TextLine(j)

\* C15: the layers of a config that was returned have pairwise distinct names,
\* and no text that declares two [layer:<name>] sections of one name is parsed
\* to a config, with or without a tiles line in the second section.
StaticLayerNamesDistinct ==
    parser.pc = "done" =>
        /\ \A i, j \in 1..Len(parser.state.config.layers) :
               i # j => parser.state.config.layers[i].name
                            # parser.state.config.layers[j].name
        /\ ~SameLayerDeclaredTwice

\* the segments of a tiles value between its ';' that are not blank
RowSegments(value) ==
    LET NotBlank(seg) == Core(seg) # <<>>
    IN SelectSeq(Tokens(value, ";"), NotBlank)

\* per row segment of a tiles value, its ','-separated tokens without their
\* surrounding white space
ExpectedGrid(value) ==
    [r \in 1..Len(RowSegments(value)) |->
        [c \in 1..Len(Tokens(RowSegments(value)[r], ",")) |->
            Core(Tokens(RowSegments(value)[r], ",")[c])]]

\* a code the Tile Validator accepts: "0", or letters followed by digits
WellFormedCode(code) ==
    \/ code = <<"0">>
    \/ /\ Len(code) >= 2
       /\ code[1] \in Letters
       /\ code[Len(code)] \in Digits
       /\ \A i \in 1..Len(code) : code[i] \in Letters \cup Digits
       /\ \A i \in 1..(Len(code) - 1) : code[i] \in Digits => code[i + 1] \in Digits

\* C16: a tiles line of a layer whose name is not taken gives the layer one row
\* per non-blank ';'-separated segment of the value and, per row, one cell per
\* ','-separated token, each cell the token without surrounding white space;
\* if a cell is not a well-formed code the parse fails with INVALID_TILE_SYNTAX.
TilesParsedAsGrid ==
    [][LineStep =>
        \A line \in {StepLine} :
            (/\ parser.state.currentSection = "layer"
             /\ KeyValueLine(line)
             /\ KeyOf(line) = S_tiles
             /\ parser'.err # DUPLICATE_LAYER) =>
                \A grid \in {ExpectedGrid(ValueOf(line))} :
                    IF \E r \in 1..Len(grid) : \E c \in 1..Len(grid[r]) :
                           ~WellFormedCode(grid[r][c])
                    THEN parser'.err = INVALID_TILE_SYNTAX
                    ELSE /\ parser'.err = OK
                         /\ parser'.state.currentLayer.tiles = grid
    ]_vars

\* C16 witness: the value " G1 ,0 ;; g2", with padded cells and a blank row,
\* was parsed to the rows (G1, 0) and (g2)
PaddedGridReached ==
    /\ parser.pc = "lines"
    /\ parser.state.currentSection = "layer"
    /\ Len(parser.text) >= 2
    /\ KeyValueLine(TextLine(Len(parser.text)))
    /\ Len(Tokens(ValueOf(TextLine(Len(parser.text))), ";")) = 3
    /\ parser.state.currentLayer.tiles = << <<G1, S0>>, <<g2>> >>

\* C17: validateTileFormat(code) succeeds exactly when the code without its
\* surrounding white space is "0" or one or more letters followed by one or
\* more digits and nothing else; on every other code it fails with
\* INVALID_TILE_SYNTAX.
ValidateAcceptsWellFormed ==
    lastOp.op = "validateTileFormat" =>
        \A code \in {Core(lastOp.tileCode)} :
            /\ lastOp.err = OK <=> WellFormedCode(code)
            /\ lastOp.err # OK => lastOp.err = INVALID_TILE_SYNTAX

\* C17 witness: a code with a blank before it was accepted
PaddedCodeAcceptedReached ==
    /\ lastOp.op = "validateTileFormat"
    /\ lastOp.tileCode = <<" ", "a", "7">>
    /\ lastOp.err = OK

\* a header name the parser knows: main, props, tileset:<id> or layer:<name>
KnownHeaderName(name) ==
    \/ name = S_main
    \/ name = S_props
    \/ StartsWith(name, S_tileset \o <<":">>)
    \/ StartsWith(name, S_layer \o <<":">>)

\* no line of the text so far is a section header
NoHeaderYet ==
    \A i \in 1..Len(parser.text) : \A l \in {TextLine(i)} : l = <<>> \/ l[1] # "["

\* C18: a bracketed header with a name other than main, tileset:<id>,
\* layer:<name> or props fails with UNKNOWN_SECTION; a key=value line before any
\* section header fails with UNKNOWN_SECTION; a line that is not blank, not a
\* comment and not a header and has no '=' fails with MISSING_KEY_VALUE; a blank
\* line or a line starting with '#' leaves the parser state as it is.
LineErrorsAndSkippedLines ==
    [][LineStep =>
        \A line \in {StepLine} :
            /\ SkippedLine(line) =>
                  /\ parser'.state = parser.state
                  /\ parser'.err = OK
                  /\ parser'.pc = "lines"
            /\ (Bracketed(line) /\ ~KnownHeaderName(HeaderName(line))) =>
                  parser'.err = UNKNOWN_SECTION
            /\ (KeyValueLine(line) /\ NoHeaderYet) =>
                  parser'.err = UNKNOWN_SECTION
            /\ (~SkippedLine(line) /\ line[1] # "[" /\ ~KeyValueLine(line)) =>
                  parser'.err = MISSING_KEY_VALUE
    ]_vars

\* C18 witness: after [main], a comment line was skipped and then a line
\* without '=' failed
CommentSkippedThenFailureReached ==
    /\ Len(parser.text) = 3
    /\ TextLine(1) = Header(S_main)
    /\ TextLine(2)[1] = "#"
    /\ TextLine(3) = S_width
    /\ parser.state.currentSection = "main"
    /\ parser.err = MISSING_KEY_VALUE

\* the entries of a props map: identifier, prop key and value
EntriesOf(map) ==
    UNION {{<<id, k, map[id][k]>> : k \in DOMAIN map[id]} : id \in DOMAIN map}

\* entries after the entry of identifier and propKey is set to value
WithEntry(entries, identifier, propKey, value) ==
    {e \in entries : ~(e[1] = identifier /\ e[2] = propKey)}
        \cup {<<identifier, propKey, value>>}

\* C19: in the props section a key of fewer than three '.'-separated segments
\* fails with UNKNOWN_PROP_FORMAT whatever its first segment; a key of three
\* or more whose first segment is not tileset, layer or tile fails with
\* UNKNOWN_PROP_TYPE; otherwise the entry [second segment][third segment] of
\* the map of that type is set to the value, replacing an earlier value, and
\* every other entry of the three maps is left as it is.
PropsLineSetsOneEntry ==
    [][LineStep =>
        \A line \in {StepLine} :
            (parser.state.currentSection = "props" /\ KeyValueLine(line)) =>
                \A segs \in {Tokens(KeyOf(line), ".")} :
                \A old \in {parser.state.config.props} :
                \A new \in {parser'.state.config.props} :
                    /\ Len(segs) < 3 => parser'.err = UNKNOWN_PROP_FORMAT
                    /\ (Len(segs) >= 3 /\ segs[1] \notin {S_tileset, S_layer, S_tile}) =>
                          parser'.err = UNKNOWN_PROP_TYPE
                    /\ (Len(segs) >= 3 /\ segs[1] \in {S_tileset, S_layer, S_tile}) =>
                          /\ parser'.err = OK
                          /\ EntriesOf(new.tilesets) =
                                IF segs[1] = S_tileset
                                THEN WithEntry(EntriesOf(old.tilesets), segs[2],
                                               segs[3], ValueOf(line))
                                ELSE EntriesOf(old.tilesets)
                          /\ EntriesOf(new.layers) =
                                IF segs[1] = S_layer
                                THEN WithEntry(EntriesOf(old.layers), segs[2],
                                               segs[3], ValueOf(line))
                                ELSE EntriesOf(old.layers)
                          /\ EntriesOf(new.tiles) =
                                IF segs[1] = S_tile
                                THEN WithEntry(EntriesOf(old.tiles), segs[2],
                                               segs[3], ValueOf(line))
                                ELSE EntriesOf(old.tiles)
    ]_vars

\* C19 witness: tile.G1.s=1 followed by tile.G1.s=2 left the one entry
\* [G1][s] = 2 in the tiles map and nothing in the two other maps
PropReplacedReached ==
    /\ Len(parser.text) = 3
    /\ parser.err = OK
    /\ TextLine(2) = PropLine(S_tile, G1, <<"s">>, <<"1">>)
    /\ TextLine(3) = PropLine(S_tile, G1, <<"s">>, <<"2">>)
    /\ EntriesOf(parser.state.config.props.tiles) = {<<G1, <<"s">>, <<"2">>>>}
    /\ parser.state.config.props.tilesets = EmptyMap
    /\ parser.state.config.props.layers = EmptyMap

-----------------------------------------------------------------------------
(* Properties of layer visibility.                                         *)

\* the names in a list
Names(list) == {list[i] : i \in 1..Len(list)}

\* C20: hideLayer, showLayer and toggleLayer leave every layer grid as it is;
\* after hideLayer(n) the name n is in the hidden list, after showLayer(n) it
\* is not, toggleLayer(n) flips whether it is, a second toggleLayer(n) right
\* after the first gives the list the names it had before the first; and the
\* hidden list never has a name twice.
VisibilityChangesListOnly ==
    /\ [](\A i, j \in 1..Len(hiddenLayers) :
             i # j => hiddenLayers[i] # hiddenLayers[j])
    /\ [][lastOp'.op \in {"hideLayer", "showLayer", "toggleLayer"} =>
            /\ runtimeLayers' = runtimeLayers
            /\ config' = config
            /\ lastOp'.op = "hideLayer" =>
                  lastOp'.layerName \in Names(hiddenLayers')
            /\ lastOp'.op = "showLayer" =>
                  lastOp'.layerName \notin Names(hiddenLayers')
            /\ lastOp'.op = "toggleLayer" =>
                  (lastOp'.layerName \in Names(hiddenLayers'))
                      # (lastOp'.layerName \in Names(hiddenLayers))
            /\ (lastOp'.op = "toggleLayer" /\ lastOp.op = "toggleLayer"
                    /\ lastOp'.layerName = lastOp.layerName) =>
                  Names(hiddenLayers') = Names(prevHidden)
       ]_vars

\* C20 witness: with two runtime layers created, a toggle of the first of two
\* hidden names showed it and left the other hidden
ToggleShowedReached ==
    /\ lastOp.op = "toggleLayer"
    /\ Len(runtimeLayers) >= 2
    /\ Len(prevHidden) = 2
    /\ prevHidden[1] = lastOp.layerName
    /\ hiddenLayers = <<prevHidden[2]>>


-----------------------------------------------------------------------------
(* Properties of the manager.                                              *)

\* a config the constructor of SceneBuilder takes for incomplete
Incomplete(cfg) == ~({"layers", "main", "tilesets"} \subseteq DOMAIN cfg)

\* C21: createScene fails with NO_CONFIG_PROVIDED when the manager holds no
\* config, with INVALID_QUERY when it holds one and the selector matches no
\* element, and with MISSING_OR_INVALID_CONFIG when the element is there and
\* the config lacks layers, main or tilesets; a failing call builds no scene:
\* the scene on the page, the count of scenes built and the manager's scene
\* reference (null if the manager created none) are as before the call.
CreateSceneRejects ==
    [][lastOp'.op = "createScene" =>
        LET present == lastOp'.layerName = "#scene"
        IN /\ manager.config = NullConfig => lastOp'.err = NO_CONFIG_PROVIDED
           /\ (manager.config # NullConfig /\ ~present) =>
                  lastOp'.err = INVALID_QUERY
           /\ (manager.config # NullConfig /\ present
                   /\ Incomplete(manager.config)) =>
                  lastOp'.err = MISSING_OR_INVALID_CONFIG
           /\ lastOp'.err # OK =>
                  /\ manager'.sceneBuilder = manager.sceneBuilder
                  /\ instance' = instance
                  /\ config' = config
                  /\ runtimeLayers' = runtimeLayers
                  /\ hiddenLayers' = hiddenLayers
                  /\ dom' = dom
                  /\ render' = render
    ]_vars

\* C21 witness: a manager that has created a scene fails to create another
\* for want of the element, and the scene with its runtime layer is still there
CreateSceneRefusedReached ==
    /\ lastOp.op = "createScene"
    /\ lastOp.err = INVALID_QUERY
    /\ manager.sceneBuilder # NoScene
    /\ manager.sceneBuilder = instance
    /\ Len(runtimeLayers) > 0


-----------------------------------------------------------------------------
(* Properties of the stored tile codes.                                    *)

\* the cells of the static and of the runtime layers
StoredCells ==
    {AllLayers[i].tiles[r][c] :
        <<i, r, c>> \in {t \in (1..Len(AllLayers)) \X (1..Height) \X (1..Width) :
                            /\ t[2] \in DOMAIN AllLayers[t[1]].tiles
                            /\ t[3] \in DOMAIN AllLayers[t[1]].tiles[t[2]]}}

\* C22: every cell of every static and runtime layer holds the empty marker
\* "0" or letters followed by digits and nothing else, whatever codes addTile
\* was called with, codes with white space around them included.
StoredCodesWellFormed ==
    \A code \in StoredCells : code = EmptyTile \/ WellFormedCode(code)


\* the cells of the runtime layers that differ before and after the step, as
\* (index of the layer, x, y)
ChangedRuntimeCells ==
    {t \in (1..Len(runtimeLayers)) \X (0..(Width - 1)) \X (0..(Height - 1)) :
        runtimeLayers'[t[1]].tiles[t[3] + 1][t[2] + 1]
            # runtimeLayers[t[1]].tiles[t[3] + 1][t[2] + 1]}

\* the step leaves the list of runtime layers, their names and the sizes of
\* their grids as they are
SameRuntimeShape ==
    /\ Len(runtimeLayers') = Len(runtimeLayers)
    /\ \A i \in 1..Len(runtimeLayers) :
           /\ runtimeLayers'[i].name = runtimeLayers[i].name
           /\ DOMAIN runtimeLayers'[i].tiles = 1..Height
           /\ \A r \in 1..Height : DOMAIN runtimeLayers'[i].tiles[r] = 1..Width

\* C23: a successful addTile(L, x, y, c) or removeTile(L, x, y) changes no cell
\* but cell (x, y) of the runtime layer named L and leaves the config (main,
\* tilesets, static grids, props) as it is; getTileMetadataStack, getProps,
\* getPropsFromHighestTile and isLayerHidden change nothing of the scene.
TileCallsChangeOneCell ==
    [][/\ (lastOp'.op \in {"addTile", "removeTile"} /\ lastOp'.err = OK) =>
            /\ SameRuntimeShape
            /\ \A t \in ChangedRuntimeCells :
                   /\ runtimeLayers[t[1]].name = lastOp'.layerName
                   /\ \A j \in 1..(t[1] - 1) :
                          runtimeLayers[j].name # lastOp'.layerName
                   /\ t[2] = lastOp'.x
                   /\ t[3] = lastOp'.y
            /\ config' = config
       /\ lastOp'.op \in {"getTileMetadataStack", "getProps",
                          "getPropsFromHighestTile", "isLayerHidden"} =>
            /\ runtimeLayers' = runtimeLayers
            /\ config' = config
            /\ hiddenLayers' = hiddenLayers
            /\ dom' = dom
            /\ eventSubscriber' = eventSubscriber
            /\ lastHoveredTile' = lastHoveredTile
    ]_vars

\* C23 witness: a tile was placed on cell (1, 0) of a runtime layer whose cell
\* (0, 0) holds a tile
SecondTilePlacedReached ==
    /\ lastOp.op = "addTile"
    /\ lastOp.err = OK
    /\ lastOp.x = 1
    /\ FindRuntimeLayer(lastOp.layerName) # 0
    /\ TileAt(runtimeLayers[FindRuntimeLayer(lastOp.layerName)], 0, 0) # EmptyTile
    /\ TileAt(runtimeLayers[FindRuntimeLayer(lastOp.layerName)], 1, 0) = lastOp.tileCode


\* C24: an addTile or removeTile call that raises an error, whatever its code
\* (INVALID_TILE_SYNTAX, LAYER_NOT_FOUND, INVALID_TILE_POSITION, or one raised
\* while the cell is rendered anew, such as TILESET_NOT_FOUND), leaves every
\* cell of every layer as it was before the call.
FailedTileCallsChangeNothing ==
    [][(lastOp'.op \in {"addTile", "removeTile"} /\ lastOp'.err # OK) =>
        /\ runtimeLayers' = runtimeLayers
        /\ config'.layers = config.layers
    ]_vars


-----------------------------------------------------------------------------
(* Properties of the parsed lines and of the returned config.              *)

\* the place of the first '=' of a line that has one
FirstEquals(l) == CHOOSE i \in 1..Len(l) : l[i] = "=" /\ \A j \in 1..(i - 1) : l[j] # "="

\* the text of a line before its first '='
BeforeFirstEquals(l) == Core(SubSeq(l, 1, FirstEquals(l) - 1))

\* the whole text of a line after its first '=', further '=' included
AfterFirstEquals(l) == Core(SubSeq(l, FirstEquals(l) + 1, Len(l)))

\* the tileset record the parser is working on after a tileset line: the one
\* in progress, or the one just finalized
WorkedTileset ==
    IF parser'.state.tempTileset # EmptyMap THEN parser'.state.tempTileset
    ELSE parser'.state.config.tilesets[Len(parser'.state.config.tilesets)]

\* C25: a key=value line is cut at its first '=' only: the key is the text
\* before it and the value everything after it, further '=' included, both
\* without the white space around them; so a tileset line stores the whole
\* remainder as the record's tileset or short, and a props line stores it as
\* the entry's value.
ValueIsWholeRemainder ==
    [][LineStep =>
        \A line \in {StepLine} :
            (KeyValueLine(line) /\ parser'.err = OK) =>
                \A key \in {BeforeFirstEquals(line)} :
                \A value \in {AfterFirstEquals(line)} :
                    /\ (parser.state.currentSection = "tileset" /\ key = S_tileset) =>
                           Field(WorkedTileset, "tileset") = value
                    /\ (parser.state.currentSection = "tileset" /\ key = S_short) =>
                           Field(WorkedTileset, "short") = value
                    /\ parser.state.currentSection = "props" =>
                           \A segs \in {Tokens(key, ".")} :
                               segs[1] = S_tile =>
                                   <<segs[2], segs[3], value>>
                                       \in EntriesOf(parser'.state.config.props.tiles)
    ]_vars


\* the config a finished parse returns
Returned == parser.state.config

\* C26: in a config that a parse returns, every static layer's grid has
\* exactly main.height rows, and every row has exactly main.width cells
\* (stated for the configs whose main has a width and a height).
GridsHaveMainSize ==
    (parser.pc = "done" /\ {S_width, S_height} \subseteq DOMAIN Returned.main) =>
        \A i \in 1..Len(Returned.layers) :
            LET tiles == Returned.layers[i].tiles
            IN /\ Len(tiles) = Returned.main[S_height].value
               /\ \A r \in 1..Len(tiles) :
                      Len(tiles[r]) = Returned.main[S_width].value

\* C27: in a config that a parse returns, main has tileSize, width and height
\* set; a text whose main section leaves one of them out is not parsed to a
\* config.
MainHasAllThree ==
    parser.pc = "done" =>
        \A key \in {S_tileSize, S_width, S_height} : key \in DOMAIN Returned.main


-----------------------------------------------------------------------------
(* Properties of the rendered layers.                                      *)

\* C28: after any calls of hideLayer, showLayer, toggleLayer,
\* createRuntimeLayer and refresh, every rendered layer element is hidden
\* (display none) exactly if isLayerHidden of its layer's name is true; so a
\* layer hidden before refresh is rendered hidden after it.
RenderedHiddenIffListed ==
    \A i \in 1..Len(dom) : dom[i].display = "none" <=> isLayerHidden(dom[i].name)


-----------------------------------------------------------------------------
(* Properties of the subscriber lists across scenes.                       *)

\* the list an event of this kind is delivered from
ListOf(event) ==
    IF event = "clicked" THEN "onTileClicked"
    ELSE IF event = "hover" THEN "onTileHover"
    ELSE "onTileHoverEnd"

\* C29: the subscriber lists belong to one scene: a SceneBuilder that has just
\* been constructed has empty tile-clicked, hover-start and hover-end lists,
\* and an event of a scene calls only callbacks that were subscribed on that
\* scene, never one subscribed on a scene created before it.
SubscribersBelongToOneScene ==
    /\ (lastOp.op = "createScene" /\ lastOp.err = OK) =>
           /\ eventSubscriber.onTileClicked = <<>>
           /\ eventSubscriber.onTileHover = <<>>
           /\ eventSubscriber.onTileHoverEnd = <<>>
    /\ \A k \in 1..Len(emitted) :
           \E i \in 1..Len(eventSubscriber[ListOf(emitted[k].event)]) :
               /\ eventSubscriber[ListOf(emitted[k].event)][i] = emitted[k].cb
               /\ subscribedOn[ListOf(emitted[k].event)][i] = instance


-----------------------------------------------------------------------------
(* Properties of the order of hover events.                                *)

\* cb is exactly once in list
SubscribedOnce(list, cb) == Cardinality({i \in 1..Len(list) : list[i] = cb}) = 1

\* the hover-start and hover-end calls the step makes to cb, in order
HoverEventsOfStep(cb) ==
    LET ToCb(c) == c.cb = cb /\ c.event \in {"hover", "hoverEnd"}
    IN SelectSeq(emitted', ToCb)

\* event b may come right after event a: a hover-start first, a hover-end of
\* the same cell after a hover-start, a hover-start after a hover-end
MayFollow(a, b) ==
    /\ a.event = "none" => b.event = "hover"
    /\ a.event = "hover" => (b.event = "hoverEnd" /\ b.x = a.x /\ b.y = a.y)
    /\ a.event = "hoverEnd" => b.event = "hover"

\* C30: over pointer moves (onto cells, within a cell, onto elements without
\* coordinates), pointer leaves and refreshes, the events a callback
\* subscribed to both hover lists is called with alternate: hover-start first,
\* then hover-end and hover-start in turn, each hover-end with the coordinates
\* of the hover-start before it.
HoverEventsAlternate ==
    [][\A cb \in Callbacks :
          (/\ SubscribedOnce(eventSubscriber.onTileHover, cb)
           /\ SubscribedOnce(eventSubscriber.onTileHoverEnd, cb)) =>
              \A events \in {<<seen[cb]>> \o HoverEventsOfStep(cb)} :
                  \A k \in 1..(Len(events) - 1) :
                      MayFollow(events[k], events[k + 1])
    ]_vars

\* C30 witness: the pointer moved from cell (0, 0) to cell (1, 0): cb1, in both
\* lists, was called with the hover-end of (0, 0) and then with the
\* hover-start of (1, 0)
MovedBetweenCellsReached ==
    /\ lastOp.op = "mousemove"
    /\ SubscribedOnce(eventSubscriber.onTileHover, "cb1")
    /\ SubscribedOnce(eventSubscriber.onTileHoverEnd, "cb1")
    /\ emitted = << [event |-> "hoverEnd", cb |-> "cb1", x |-> 0, y |-> 0],
                    [event |-> "hover", cb |-> "cb1", x |-> 1, y |-> 0] >>
    /\ seen["cb1"] = [event |-> "hover", cb |-> "cb1", x |-> 1, y |-> 0]

=============================================================================
